---------------------------- MODULE Spec2Model ----------------------------
(***************************************************************************)
(* Implied-NAV tracker for closed-end funds (CEFs).                        *)
(*                                                                         *)
(* Two programs share one aggregation / alert algorithm:                   *)
(*   - src/server.py : the request-driven service (/data, /cron,           *)
(*                     /send_telegram) with an in-memory cache;            *)
(*   - src/tracker.py: the polling loop with a durable snapshot file and   *)
(*                     a daily reference file.                             *)
(*                                                                         *)
(* Numbers.  A decimal number of the inputs and of the results is written  *)
(* as an integer count of its last decimal place:                          *)
(*   change_percent : hundredths of a percent        (2.0 %   -> 200)      *)
(*   weight         : hundredths of a percentage pt. (50.0    -> 5000)     *)
(*   implied_move (reported, 3 decimals) : thousandths of a percent        *)
(*   tracked_weight (reported, 1 decimal): tenths of a percentage point    *)
(* The code computes on Python floats.  So does the model: an input stands *)
(* for the float nearest to the decimal, impact and the two running sums   *)
(* are floats (IEEE-754 binary64, each operation rounded to nearest, ties  *)
(* to even), and the thresholds, round() and the f-string formats act on   *)
(* the float's exact binary value.                                         *)
(***************************************************************************)
EXTENDS Integers, Sequences, FiniteSets, TLC

VARIABLES
    deploy,            \* what runs: the server with requests one after another
                       \* ("service") or overlapping ("threads"), the "loop",
                       \* or a function on its own ("calc", "restore", "levels")
    holdings_file,     \* all_holdings.json: [state, funds]
    creds,             \* TELEGRAM_BOT_TOKEN and TELEGRAM_CHAT_ID are both set
    cef_alert_states,  \* fund name -> alert level
    memory_cache,      \* server.py: [last_updated, data]
    now,               \* time.time()
    last,              \* what the last step was, and the request or pass it completed
    sent_count,        \* fund name -> alerts attempted since the last reset
    trail,             \* CEF1's passes since the last reset, while they follow Scenario
    proc,              \* tracker.py: main()'s locals and where it stands
    disk,              \* tracker.py: file name -> content
    today,             \* get_trt_date()
    thr,               \* server.py: request thread -> the frame of its request
    calc               \* a function applied on its own: its inputs and, once run, its result

vars == <<deploy, holdings_file, creds, cef_alert_states, memory_cache, now,
          last, sent_count, trail, proc, disk, today, thr, calc>>

-----------------------------------------------------------------------------
(* Small helpers                                                           *)

None == <<>>
Some(x) == <<x>>
IsNone(o) == o = <<>>
Val(o) == o[1]

EmptyMap == [x \in {} |-> 0]
Put(m, k, v) == [x \in (DOMAIN m) \cup {k} |-> IF x = k THEN v ELSE m[x]]
\* dict.get(k, d)
Get(m, k, d) == IF k \in DOMAIN m THEN m[k] ELSE d

Abs(x) == IF x < 0 THEN -x ELSE x

-----------------------------------------------------------------------------
(* Python floats: IEEE-754 binary64, round-to-nearest, ties-to-even         *)

\* Natural numbers of any size: little-endian sequences of limbs below Limb,
\* without a leading zero limb (0 is << >>).
LimbBits == 14
Limb == 16384

\* sys.float_info.mant_dig
MantDig == 53

RECURSIVE Pow2(_)
Pow2(n) == IF n = 0 THEN 1 ELSE 2 * Pow2(n - 1)

RECURSIVE Pow10(_)
Pow10(n) == IF n = 0 THEN 1 ELSE 10 * Pow10(n - 1)

RECURSIVE Trim(_)
Trim(a) ==
    IF a = << >> \/ a[Len(a)] # 0 THEN a ELSE Trim(SubSeq(a, 1, Len(a) - 1))

\* limbs of the number whose i-th column holds cols[i] (each below 2^31 - Limb)
RECURSIVE Carry(_, _)
Carry(cols, c) ==
    IF cols = << >>
    THEN IF c = 0 THEN << >> ELSE << c % Limb >> \o Carry(<< >>, c \div Limb)
    ELSE LET v == cols[1] + c
         IN  << v % Limb >> \o Carry(Tail(cols), v \div Limb)

BigNat(n) == Trim(Carry(<< n >>, 0))

RECURSIVE BigToInt(_)
BigToInt(a) == IF a = << >> THEN 0 ELSE a[1] + Limb * BigToInt(Tail(a))

LimbAt(a, i) == IF i <= Len(a) THEN a[i] ELSE 0

BigAdd(a, b) ==
    LET n == IF Len(a) > Len(b) THEN Len(a) ELSE Len(b)
    IN  Trim(Carry([i \in 1..n |-> LimbAt(a, i) + LimbAt(b, i)], 0))

\* -1, 0, 1 as a < b, a = b, a > b
BigCmp(a, b) ==
    IF Len(a) # Len(b) THEN (IF Len(a) < Len(b) THEN -1 ELSE 1)
    ELSE LET D == { i \in 1..Len(a) : a[i] # b[i] }
         IN  IF D = {} THEN 0
             ELSE LET k == CHOOSE i \in D : \A j \in D : j <= i
                  IN  IF a[k] < b[k] THEN -1 ELSE 1

\* a - b for a >= b
RECURSIVE Borrow(_, _, _, _)
Borrow(a, b, i, c) ==
    IF i > Len(a) THEN << >>
    ELSE LET v == a[i] - LimbAt(b, i) - c
         IN  << IF v < 0 THEN v + Limb ELSE v >>
             \o Borrow(a, b, i + 1, IF v < 0 THEN 1 ELSE 0)

BigSub(a, b) == Trim(Borrow(a, b, 1, 0))

\* a * k for 0 <= k < Limb
BigMulSmall(a, k) == Trim(Carry([i \in 1..Len(a) |-> a[i] * k], 0))

RECURSIVE BigMul(_, _)
BigMul(a, b) ==
    IF a = << >> \/ b = << >> THEN << >>
    ELSE LET rest == BigMul(a, Tail(b))
         IN  BigAdd(BigMulSmall(a, b[1]),
                    IF rest = << >> THEN << >> ELSE << 0 >> \o rest)

\* a * 2^n
BigShl(a, n) ==
    IF a = << >> THEN << >>
    ELSE [i \in 1..(n \div LimbBits) |-> 0] \o BigMulSmall(a, Pow2(n % LimbBits))

\* bit i of a (bit 0 is the lowest)
Bit(a, i) == (LimbAt(a, i \div LimbBits + 1) \div Pow2(i % LimbBits)) % 2

\* a % 2^n = 0
LowBitsZero(a, n) ==
    /\ \A i \in 1..Len(a) : i <= n \div LimbBits => a[i] = 0
    /\ LimbAt(a, n \div LimbBits + 1) % Pow2(n % LimbBits) = 0

\* [q, r] with a * Limb^j + ... divided by d, 0 < d < Limb, limbs taken from the top
RECURSIVE DivSmall(_, _, _, _)
DivSmall(a, d, i, r) ==
    IF i = 0 THEN [q |-> << >>, r |-> r]
    ELSE LET v == r * Limb + a[i]
             rest == DivSmall(a, d, i - 1, v % d)
         IN  [q |-> Append(rest.q, v \div d), r |-> rest.r]

\* A float is [neg, m, e]: (-1)^neg * m * 2^e with m of MantDig bits, or m = 0.
\* The values of the program are far from the subnormal and the overflow
\* range; the sign of a zero plays no part in any comparison and is dropped.
Zero == [neg |-> FALSE, m |-> << >>, e |-> 0]

\* abs(x)
FloatAbs(x) == [x EXCEPT !.neg = FALSE]

\* -1, 0, 1 as x < y, x = y, x > y
FloatCmp(x, y) ==
    IF x.m = << >> /\ y.m = << >> THEN 0
    ELSE IF x.m = << >> THEN (IF y.neg THEN 1 ELSE -1)
    ELSE IF y.m = << >> THEN (IF x.neg THEN -1 ELSE 1)
    ELSE IF x.neg # y.neg THEN (IF x.neg THEN -1 ELSE 1)
    ELSE IF x.e # y.e THEN (IF (x.e < y.e) = x.neg THEN 1 ELSE -1)
    ELSE IF x.neg THEN BigCmp(y.m, x.m) ELSE BigCmp(x.m, y.m)

\* The operations below are evaluated by the one operator Compute, which is
\* defined after the holding loop: Compute(op, v) is the operation named op
\* applied to the arguments v.
RECURSIVE Compute(_, _)

\* a \div 2^n
BigShr(a, n) == Compute("BigShr", << a, n >>)

\* the number of bits of a
BitLen(a) == Compute("BitLen", << a >>)

\* the float nearest to (-1)^neg * (N + f) * 2^e, where 0 < f < 1 when sticky
\* and f = 0 otherwise; ties go to the even mantissa
RoundToFloat(neg, N, sticky, e) == Compute("RoundToFloat", << neg, N, sticky, e >>)

\* float(n) for an int n
FromInt(n) == Compute("FromInt", << n >>)

\* x * y
FloatMul(x, y) == Compute("FloatMul", << x, y >>)

\* x / d for an int 0 < d < Limb
FloatDivInt(x, d) == Compute("FloatDivInt", << x, d >>)

\* x + y
FloatAdd(x, y) == Compute("FloatAdd", << x, y >>)

\* the float a decimal literal n/d denotes (json.load, a float literal)
Decimal(n, d) == Compute("Decimal", << n, d >>)

\* round(x, ndigits) and the formats {x:+.2f}, {x:.1f}: the decimal of ndigits
\* places nearest to the float's exact value, ties to even, as the integer
\* x * 10^ndigits
round(x, ndigits) == Compute("round", << x, ndigits >>)

-----------------------------------------------------------------------------
(* The holdings store and the price provider (inputs of the model)         *)

\* json.load(all_holdings.json): fund name -> list of {symbol, weight}, in file
\* order.  A fund list is a sequence of [name, holdings]; names are dict keys.
H(sym, w) == [symbol |-> sym, weight |-> w]

\* the funds of the store: weights 100 / 50, 30, 20 percentage points
HoldingsA ==
    << [name |-> "CEF1", holdings |-> << H("A", 10000) >>],
       [name |-> "CEF2",
        holdings |-> << H("A", 5000), H("B", 3000), H("X_PVT", 2000) >>] >>

\* contents all_holdings.json can have: absent (or not JSON: state "corrupt",
\* read the same way), an empty object, funds
HoldingsFiles ==
    { [state |-> "missing", funds |-> << >>],
      [state |-> "ok", funds |-> << >>],
      [state |-> "ok", funds |-> HoldingsA] }

\* "_PVT" in stock['symbol']
IsPrivate(sym) == sym \in {"X_PVT"}

\* unique_symbols: every symbol of every fund without "_PVT" in it
UniqueSymbols(all_cefs) ==
    { sym \in UNION { { all_cefs[i].holdings[j].symbol :
                          j \in 1..Len(all_cefs[i].holdings) } :
                      i \in 1..Len(all_cefs) } : ~IsPrivate(sym) }

\* change_percent values Yahoo can report per symbol (hundredths of a percent)
ChangesOf(sym) ==
    IF sym = "A" THEN {30, 40, 60, 120}
    ELSE IF sym = "B" THEN {-200}
    ELSE {}

\* one entry of fetch_yahoo_snapshot's result; the float last_price plays no
\* part in any computation and is kept as the one value 1
YahooEntry(c) == [price |-> Some(1), change_percent |-> Some(c), source |-> "YAHOO"]

\* p_data = price_db.get(sym, {}) and its .get('change_percent'), .get('source', '')
NoEntry == [price |-> None, change_percent |-> None, source |-> ""]

\* fetch_yahoo_snapshot(symbols): a best-effort map; any symbol may be left
\* out (no column, fewer than two closes, prev_close <= 0, an exception), and
\* a failed download gives {}
fetch_yahoo_snapshot(symbols) ==
    UNION { { [s \in D |-> YahooEntry(f[s])] :
                f \in { g \in [D -> UNION {ChangesOf(s) : s \in D}] :
                           \A s \in D : g[s] \in ChangesOf(s) } } :
            D \in SUBSET symbols }

\* Inputs of the evaluations of one fund on its own.
\* holdings a fund is made of: weights 50, 30, 20, -50, 0 and 0.35
HoldingChoices ==
    { H("A", 5000), H("B", 3000), H("C", 2000), H("C", -5000), H("B", 0), H("A", 35) }

\* price entries per symbol in the price maps tried; B's may lack change_percent
CalcEntriesOf(sym) ==
    IF sym = "A" THEN {YahooEntry(200), YahooEntry(100)}
    ELSE IF sym = "B"
    THEN {YahooEntry(150), [price |-> Some(1), change_percent |-> None, source |-> "YAHOO"]}
    ELSE IF sym = "C" THEN {YahooEntry(-400)}
    ELSE {}

\* the price maps over the symbols syms
PriceMapsOver(syms) ==
    UNION { { g \in [D -> UNION {CalcEntriesOf(sym) : sym \in D}] :
                \A sym \in D : g[sym] \in CalcEntriesOf(sym) } :
            D \in SUBSET syms }

CalcPriceMaps == PriceMapsOver({"A", "B", "C"})

\* holdings of the funds whose snapshot is restored
RestoreHoldingChoices == { H("A", 5000), H("B", 3000), H("X_PVT", 2000) }
RestorePriceMaps == PriceMapsOver({"A", "B"})

\* funds evaluated at and around the thresholds: one holding of weight 99.99,
\* 100 or 100.01, and the weights 70, 20, 10
LevelFunds ==
    { << H("A", 9999) >>, << H("A", 10000) >>, << H("A", 10001) >>,
      << H("A", 7000), H("B", 2000), H("C", 1000) >> }
\* the change of every holding of such a fund: 0, 0.5, 1.0 and 1.2 percent, up
\* and down
LevelChanges == {-120, -100, -50, 0, 50, 100, 120}

\* the weights and the changes of all these inputs
InputWeights ==
    { h.weight : h \in HoldingChoices \cup RestoreHoldingChoices }
    \cup UNION { { HoldingsA[i].holdings[j].weight : j \in 1..Len(HoldingsA[i].holdings) } :
                 i \in 1..Len(HoldingsA) }
    \cup UNION { { f[j].weight : j \in 1..Len(f) } : f \in LevelFunds }
InputChanges ==
    LevelChanges
    \cup UNION { ChangesOf(sym) : sym \in {"A", "B"} }
    \cup UNION { { Val(e.change_percent) :
                    e \in { x \in CalcEntriesOf(sym) : ~IsNone(x.change_percent) } } :
                 sym \in {"A", "B", "C"} }

-----------------------------------------------------------------------------
(* Aggregation: the holding loop of generate_data / export_dashboard       *)

\* the float of a weight or a change_percent given in hundredths
Hundredths(n) == Compute("Hundredths", << n >>)

\* (calc_chg * weight) / 100
ImpactOf(calc_chg, weight) == FloatDivInt(FloatMul(calc_chg, weight), 100)

\* impact = (calc_chg * weight) / 100
Impact(calc_chg, weight) == Compute("Impact", << calc_chg, weight >>)

\* total_weighted_change = 0.0, total_weight_tracked = 0.0, detailed_holdings = []
NoHoldings ==
    [total_weighted_change |-> Zero, total_weight_tracked |-> Zero,
     detailed_holdings |-> << >>]

\* (variant: every holding's weight is counted as tracked)
HoldingStepCountAll(acc, stock, price_db) ==
    LET weight == Hundredths(stock.weight)
        p_data == Get(price_db, stock.symbol, NoEntry)
        chg == p_data.change_percent
        calc_chg == IF ~IsNone(chg) THEN Hundredths(Val(chg)) ELSE Zero
        impact == Impact(calc_chg, weight)
    IN  [ total_weighted_change |-> FloatAdd(acc.total_weighted_change, impact),
          total_weight_tracked |-> FloatAdd(acc.total_weight_tracked, weight),
          detailed_holdings |->
              Append(acc.detailed_holdings,
                     [symbol |-> stock.symbol, weight |-> stock.weight, change |-> chg,
                      source |-> p_data.source]) ]

\* one iteration of `for stock in holdings`
HoldingStep(acc, stock, price_db) ==
    LET sym == stock.symbol
        weight == Hundredths(stock.weight)
        p_data == Get(price_db, sym, NoEntry)
        chg == p_data.change_percent
        src == p_data.source
        calc_chg == IF ~IsNone(chg) THEN Hundredths(Val(chg)) ELSE Zero
        impact == Impact(calc_chg, weight)
    IN  [ total_weighted_change |-> FloatAdd(acc.total_weighted_change, impact),
          total_weight_tracked |->
              IF ~IsNone(chg) THEN FloatAdd(acc.total_weight_tracked, weight)
              ELSE acc.total_weight_tracked,
          detailed_holdings |->
              Append(acc.detailed_holdings,
                     [symbol |-> sym, weight |-> stock.weight, change |-> chg,
                      source |-> src]) ]

RECURSIVE HoldingLoop(_, _, _, _)
HoldingLoop(acc, holdings, i, price_db) ==
    IF i > Len(holdings) THEN acc
    ELSE HoldingLoop(HoldingStep(acc, holdings[i], price_db), holdings, i + 1, price_db)

\* what the holding loop reads of price_db: change_percent and source of the
\* entries of the holdings' symbols
Reads(holdings, price_db) ==
    [ sym \in { holdings[j].symbol : j \in 1..Len(holdings) } \cap DOMAIN price_db |->
        [change_percent |-> price_db[sym].change_percent,
         source |-> price_db[sym].source] ]

-----------------------------------------------------------------------------
(* Alert logic: the fund loop of generate_data / export_dashboard          *)

\* 1.0 and 0.5
CriticalMove == Decimal(10, 10)
WarningMove == Decimal(5, 10)

\* if current_abs_change >= 1.0: 2 / elif current_abs_change >= 0.5: 1 / else 0
AlertLevelOf(total_weighted_change) ==
    LET current_abs_change == FloatAbs(total_weighted_change)
    IN  IF FloatCmp(current_abs_change, CriticalMove) >= 0 THEN 2
        ELSE IF FloatCmp(current_abs_change, WarningMove) >= 0 THEN 1
        ELSE 0

\* (variants of the comparison, used to test the claims' formulas)
EscalatesOnChange(alert_level, last_lvl) == alert_level # last_lvl
EscalatesOrEqual(alert_level, last_lvl) == alert_level >= last_lvl

\* if alert_level > last_lvl
Escalates(alert_level, last_lvl) == alert_level > last_lvl

\* (variant: every alert reads UP)
DirectionAlwaysUp(total_weighted_change) == "UP"

\* direction = "UP" if total_weighted_change > 0 else "DOWN"
Direction(total_weighted_change) ==
    IF FloatCmp(total_weighted_change, Zero) > 0 THEN "UP" ELSE "DOWN"

\* (variant: a move of exactly 0 reads DOWN)
StatusStrict(total_weighted_change) ==
    IF FloatCmp(total_weighted_change, Zero) > 0 THEN "UP" ELSE "DOWN"

\* "status": "UP" if total_weighted_change >= 0 else "DOWN"
Status(total_weighted_change) ==
    IF FloatCmp(total_weighted_change, Zero) >= 0 THEN "UP" ELSE "DOWN"

\* the f-string of the alert: name, direction, move to 2 decimals (hundredths
\* of a percent), tracked weight to 1 decimal (tenths)
AlertMsg(cef_name, alert_level, agg) ==
    [ cef |-> cef_name,
      level |-> alert_level,
      direction |-> Direction(agg.total_weighted_change),
      move |-> round(agg.total_weighted_change, 2),
      tracked |-> round(agg.total_weight_tracked, 1) ]

\* dashboard_data["cefs"].append({...})
FundResult(cef_name, agg) ==
    [ name |-> cef_name,
      implied_move |-> round(agg.total_weighted_change, 3),
      tracked_weight |-> round(agg.total_weight_tracked, 1),
      status |-> Status(agg.total_weighted_change),
      holdings |-> agg.detailed_holdings ]

\* send_telegram_message(message): TRUE when the message was posted.  Missing
\* keys return early; a transport exception is caught inside.  Neither file's
\* version lets an exception out.
send_telegram_message(has_keys, transport_ok) ==
    IF ~has_keys THEN FALSE
    ELSE IF transport_ok THEN TRUE
    ELSE FALSE

\* What one iteration of the fund loop computes from the holdings and the
\* prices alone: the sums of the holding loop, the alert level, and the alert
\* text and the result entry made of them.
EvaluateOn(cef_name, agg) ==
    [ total_weighted_change |-> agg.total_weighted_change,
      total_weight_tracked |-> agg.total_weight_tracked,
      alert_level |-> AlertLevelOf(agg.total_weighted_change),
      msg |-> AlertMsg(cef_name, AlertLevelOf(agg.total_weighted_change), agg),
      result |-> FundResult(cef_name, agg) ]

EvaluateFund(cef, price_db) ==
    EvaluateOn(cef.name, HoldingLoop(NoHoldings, cef.holdings, 1, price_db))

Evaluate(cef, price_db) == Compute("Evaluate", << cef, price_db >>)

\* Values computed once: the floats of the inputs' weights and changes, the
\* impacts of these changes on these weights, and the funds of the store
\* evaluated on every answer of the provider.
HundredthsMemo == [n \in InputWeights \cup InputChanges |-> Decimal(n, 100)]

ImpactMemo ==
    [ k \in { << c, w >> :
                c \in {Zero} \cup { HundredthsMemo[n] : n \in InputChanges },
                w \in { HundredthsMemo[n] : n \in InputWeights } } |->
        ImpactOf(k[1], k[2]) ]

EvaluateMemo ==
    [ k \in { << HoldingsA[i], Reads(HoldingsA[i].holdings, db) >> :
                i \in 1..Len(HoldingsA),
                db \in fetch_yahoo_snapshot(UniqueSymbols(HoldingsA)) } |->
        EvaluateFund(k[1], k[2]) ]

AnswerMemo ==
    [ k \in { << HoldingsA[i], db >> :
                i \in 1..Len(HoldingsA),
                db \in fetch_yahoo_snapshot(UniqueSymbols(HoldingsA)) } |->
        EvaluateMemo[<< k[1], Reads(k[1].holdings, k[2]) >>] ]

\* memo[k] when the table has it, the value computed otherwise
Lookup(memo, k, otherwise) == IF k \in DOMAIN memo THEN memo[k] ELSE otherwise

\* the operation named op applied to the arguments v
Compute(op, v) ==
    CASE op = "Evaluate" ->
           Lookup(AnswerMemo, v,
                  Lookup(EvaluateMemo, << v[1], Reads(v[1].holdings, v[2]) >>,
                         EvaluateFund(v[1], v[2])))
      [] op = "BitLen" ->
           LET a == v[1]
           IN  IF a = << >> THEN 0
               ELSE LimbBits * (Len(a) - 1)
                    + (CHOOSE k \in 1..LimbBits :
                          Pow2(k - 1) <= a[Len(a)] /\ a[Len(a)] < Pow2(k))
      [] op = "BigShr" ->
           LET a == v[1]
               q == v[2] \div LimbBits
               p == Pow2(v[2] % LimbBits)
           IN  IF q >= Len(a) THEN << >>
               ELSE Trim(<< >> \o [i \in 1..(Len(a) - q) |->
                                     a[q + i] \div p
                                     + (LimbAt(a, q + i + 1) % p) * (Limb \div p)])
      [] op = "RoundToFloat" ->
           LET neg == v[1]
               N == v[2]
               sticky == v[3]
               e == v[4]
           IN  IF N = << >> THEN Zero
               ELSE LET L == BitLen(N)
                    IN  IF L <= MantDig
                        THEN [neg |-> neg, m |-> BigShl(N, MantDig - L),
                              e |-> e - (MantDig - L)]
                        ELSE LET n == L - MantDig
                                 q == BigShr(N, n)
                                 half == Bit(N, n - 1) = 1
                                 low == sticky \/ ~LowBitsZero(N, n - 1)
                                 up == half /\ (low \/ q[1] % 2 = 1)
                                 m == IF up THEN BigAdd(q, << 1 >>) ELSE q
                             IN  IF BitLen(m) > MantDig
                                 THEN [neg |-> neg, m |-> BigShr(m, 1), e |-> e + n + 1]
                                 ELSE [neg |-> neg, m |-> m, e |-> e + n]
      [] op = "FloatAdd" ->
           LET x == v[1]
               y == v[2]
           IN  IF x.m = << >> THEN y
               ELSE IF y.m = << >> THEN x
               ELSE LET e == IF x.e < y.e THEN x.e ELSE y.e
                        X == BigShl(x.m, x.e - e)
                        Y == BigShl(y.m, y.e - e)
                        c == BigCmp(X, Y)
                    IN  IF x.neg = y.neg THEN RoundToFloat(x.neg, BigAdd(X, Y), FALSE, e)
                        ELSE IF c = 0 THEN Zero
                        ELSE IF c > 0 THEN RoundToFloat(x.neg, BigSub(X, Y), FALSE, e)
                        ELSE RoundToFloat(y.neg, BigSub(Y, X), FALSE, e)
      [] op = "Hundredths" ->
           Lookup(HundredthsMemo, v[1], Decimal(v[1], 100))
      [] op = "Impact" ->
           Lookup(ImpactMemo, v, ImpactOf(v[1], v[2]))
      [] op = "round" ->
           LET x == v[1]
               N == BigMulSmall(x.m, Pow10(v[2]))
               n == -x.e
               q == BigToInt(BigShr(N, n))
               half == Bit(N, n - 1) = 1
               low == ~LowBitsZero(N, n - 1)
               mag == IF x.e >= 0 THEN BigToInt(BigShl(N, x.e))
                      ELSE IF half /\ (low \/ q % 2 = 1) THEN q + 1 ELSE q
           IN  IF x.m = << >> THEN 0
               ELSE IF x.neg THEN -mag ELSE mag
      [] op = "FloatMul" ->
           RoundToFloat(v[1].neg # v[2].neg, BigMul(v[1].m, v[2].m), FALSE,
                        v[1].e + v[2].e)
      [] op = "FloatDivInt" ->
           LET N == BigShl(v[1].m, 2 * LimbBits)
               r == DivSmall(N, v[2], Len(N), 0)
           IN  RoundToFloat(v[1].neg, Trim(r.q), r.r # 0, v[1].e - 2 * LimbBits)
      [] op = "FromInt" ->
           RoundToFloat(v[1] < 0, BigNat(Abs(v[1])), FALSE, 0)
      [] op = "Decimal" ->
           FloatDivInt(FromInt(v[1]), v[2])

\* last_lvl = ..., `if alert_level > last_lvl` with the send and the
\* assignment of the level, and dashboard_data["cefs"].append, for the fund
\* evaluated as ev.  st: [states, cefs, alerts, evals]
EvalEntry(ev) ==
    [ name |-> ev.result.name,
      total_weighted_change |-> ev.total_weighted_change,
      total_weight_tracked |-> ev.total_weight_tracked,
      implied_move |-> ev.result.implied_move,
      alert_level |-> ev.alert_level ]

FundStepOn(st, ev, last_lvl, delivered) ==
    [ states |-> IF Escalates(ev.alert_level, last_lvl)
                 THEN Put(st.states, ev.result.name, ev.alert_level)
                 ELSE st.states,
      cefs |-> Append(st.cefs, ev.result),
      alerts |->
          IF Escalates(ev.alert_level, last_lvl)
          THEN Append(st.alerts, [msg |-> ev.msg, delivered |-> delivered])
          ELSE st.alerts,
      evals |-> Append(st.evals, EvalEntry(ev)) ]

\* (variant: the level is advanced only when the alert was delivered)
FundStepOnDelivery(st, cef, price_db, last_lvl, has_keys, transport_ok) ==
    LET new == FundStepOn(st, Evaluate(cef, price_db), last_lvl,
                          send_telegram_message(has_keys, transport_ok))
    IN  IF send_telegram_message(has_keys, transport_ok) THEN new
        ELSE [new EXCEPT !.states = st.states]

\* one iteration of `for cef_name, holdings in all_cefs.items()`.
\* last_lvl is the level the loop read; transport_ok tells whether the post of
\* this fund's alert, if one is made, goes through.
FundStep(st, cef, price_db, last_lvl, has_keys, transport_ok) ==
    FundStepOn(st, Evaluate(cef, price_db), last_lvl,
               send_telegram_message(has_keys, transport_ok))

-----------------------------------------------------------------------------
(* server.py: the request handlers and generate_data, line by line         *)
(*                                                                         *)
(* app.run serves every request in a thread of its own and nothing locks   *)
(* the module's globals, so a handler is a sequence of steps, one for each *)
(* access to what the threads share: cef_alert_states, memory_cache, the   *)
(* clock, the holdings file and the network.  The code between two         *)
(* accesses works on locals and belongs to the step of the access before   *)
(* it.  deploy = "service" explores requests that arrive one after         *)
(* another, over every holdings file, credentials and provider answer;     *)
(* deploy = "threads" explores requests that overlap.                      *)

CACHE_DURATION == 60

\* the clock at which the model stops advancing time
MaxTime == 60
\* how far time moves between two requests
Ticks == {30}
\* how long the download of fetch_yahoo_snapshot can take
PassDurations == {0, 30}
\* how long a post of send_telegram_message can take
PostDurations == {0, 30}

\* time.strftime('%H:%M:%S'): the time of day, in seconds
Timestamp(t) == t % (24 * 60 * 60)

\* get_holdings(): the file's funds, {} when it is absent or json.load raises
get_holdings(file) ==
    IF file.state = "ok" THEN file.funds ELSE << >>

FundNames(all_cefs) == { all_cefs[i].name : i \in 1..Len(all_cefs) }

NoPass == [states |-> EmptyMap, cefs |-> << >>, alerts |-> << >>, evals |-> << >>]

IsError(data) == "error" \in DOMAIN data

\* (variant: no cache is fresh)
InWindowNever(last_updated, t) == FALSE

\* (variant: the window closed one tick late)
InWindowInclusive(last_updated, t) == t - last_updated <= CACHE_DURATION

\* (now - memory_cache['last_updated'] < CACHE_DURATION)
InWindow(last_updated, t) == t - last_updated < CACHE_DURATION

\* memory_cache['data'] and (now - memory_cache['last_updated'] < CACHE_DURATION)
IsFresh(cache, t) == ~IsNone(cache.data) /\ InWindow(cache.last_updated, t)

\* (variant: the result is stored whatever it is)
CacheableAlways(cache, data, t) == TRUE

\* (variant: a result is not stored over a cache that is still fresh)
CacheableUnlessFresh(cache, data, t) ==
    ~IsError(data) /\ ~(~IsNone(cache.data) /\ t - cache.last_updated < CACHE_DURATION)

\* if "error" not in data:  (before the two stores into memory_cache)
Cacheable(cache, data, t) == ~IsError(data)

\* the transport's answers to the posts of a pass over the funds all_cefs
Transports(all_cefs) == [FundNames(all_cefs) -> BOOLEAN]

\* how long the posts of the alerts take: requests.post is called once per
\* alert, and not at all when the keys are missing
PostTimes(alerts, has_keys) ==
    IF has_keys /\ alerts # << >> THEN PostDurations ELSE {0}

\* how long one post takes
DigestTimes(has_keys) == IF has_keys THEN PostDurations ELSE {0}

\* what the transport can do to one post: nothing is posted without the keys
PostOutcomes(has_keys) == IF has_keys THEN BOOLEAN ELSE {FALSE}

AllFundNames == FundNames(HoldingsA)

Counted(counts, alerts) ==
    [ n \in AllFundNames |->
        counts[n] + Cardinality({ k \in 1..Len(alerts) : alerts[k].msg.cef = n }) ]

\* The moves 0.3, 0.6, 1.2, 0.4 of the ratchet scenario, and the observation
\* of it: trail.flags holds, per pass since the last reset, whether CEF1 was
\* alerted, as long as CEF1's moves are the scenario's (trail.on).
Scenario == << 300, 600, 1200, 400 >>
NoTrail == [on |-> TRUE, flags |-> << >>]

Observe(tr, evals, alerts) ==
    LET ks == { k \in 1..Len(evals) : evals[k].name = "CEF1" }
    IN  IF ks = {} \/ ~tr.on THEN tr
        ELSE LET e == evals[CHOOSE k \in ks : TRUE]
                 n == Len(tr.flags)
             IN  IF n < Len(Scenario) /\ e.implied_move = Scenario[n + 1]
                 THEN [tr EXCEPT !.flags =
                          Append(@, \E k \in 1..Len(alerts) : alerts[k].msg.cef = "CEF1")]
                 ELSE [on |-> FALSE, flags |-> << >>]

\* What the step just taken completed, for the properties: op names the
\* handler or loop step, and the other fields describe the request or pass it
\* finished (all empty for a step that finishes none).  before is what the
\* request found when it arrived, serial tells that no other thread took a
\* step of a pass while it ran, t is the clock the handler read.
Idle(op) ==
    [ op |-> op, hit |-> FALSE, fetched |-> FALSE, alerts |-> << >>,
      evals |-> << >>, pass |-> None, digest |-> None, response |-> None,
      rolled |-> None, fresh |-> FALSE, prices |-> None, before |-> None,
      serial |-> TRUE, t |-> 0 ]

InitCache == [last_updated |-> 0, data |-> None]
NoCounts == [n \in AllFundNames |-> 0]

\* request threads of the server
Threads == {1, 2}
\* requests a thread starts while requests overlap (a /data call that arrives
\* on a fresh cache is not counted)
MaxRuns == 1

Routes == {"cron_check", "get_data", "trigger_telegram"}

\* the steps inside generate_data and the stores of its result
PassPcs == {"read", "check", "init", "fetch", "clock", "eval", "send", "store",
            "return", "store_data", "stamp"}

NoBefore == [states |-> EmptyMap, cache |-> InitCache, now |-> 0, prev |-> None]

\* The frame of a request.  kind is the route, t the value of the handler's
\* `now`; all_cefs, price_db, i (the fund the loop is at), alert_level are the
\* locals of generate_data and data the dict it builds (or the cached one
\* /send_telegram took); ran tells that generate_data was called, fetched that
\* the provider was asked; alerts and evals list the alerts posted and the
\* funds evaluated; before is what the request found on arrival and serial
\* tells that no other thread has taken a step of a pass since.  The thread
\* keeps runs (requests it started), sent (the alerts its last pass posted
\* beside other requests) and raced (a pass of it ran while another pass was
\* in progress) after the request.
IdleThread ==
    [ pc |-> "idle", runs |-> 0, kind |-> "", t |-> 0, all_cefs |-> << >>,
      price_db |-> EmptyMap, i |-> 0, alert_level |-> 0, data |-> None,
      ran |-> FALSE, fetched |-> FALSE, alerts |-> << >>, evals |-> << >>,
      before |-> NoBefore, serial |-> TRUE, sent |-> {}, raced |-> FALSE ]
NoThreads == [t \in Threads |-> IdleThread]

\* the request is answered: the frame is gone
Done(th) == [IdleThread EXCEPT !.runs = th.runs, !.sent = th.sent, !.raced = th.raced]

\* the record of the request answered with response
Reply(th, response) ==
    [ Idle(th.kind) EXCEPT
        !.fetched = th.fetched,
        !.alerts = th.alerts,
        !.evals = th.evals,
        !.pass = IF th.ran THEN th.data ELSE None,
        !.response = Some(response),
        !.fresh = IsFresh(th.before.cache, th.before.now),
        !.prices = IF th.fetched THEN Some(th.price_db) ELSE None,
        !.before = Some(th.before),
        !.serial = th.serial,
        !.t = th.t ]

\* the threads after thread t went to frame f by a step that reads or posts
ReaderStep(t, f) == [thr EXCEPT ![t] = f]

\* the threads after thread t went to frame f by a step of a pass: the other
\* requests in flight do not run alone, and t's pass races the passes among
\* them
PassStep(t, f) ==
    [ u \in Threads |->
        IF u = t
        THEN [f EXCEPT !.raced = @ \/ \E v \in Threads \ {t} : thr[v].pc \in PassPcs]
        ELSE IF thr[u].pc = "idle" THEN thr[u]
        ELSE [thr[u] EXCEPT !.serial = FALSE,
                            !.raced = @ \/ thr[u].pc \in PassPcs] ]

ThreadFrame ==
    UNCHANGED <<deploy, holdings_file, creds, proc, disk, today, calc>>

\* the provider's answers to a pass: every answer when requests come one after
\* another, the answers that report both symbols when they overlap
ThreadAnswers(all_cefs) ==
    IF deploy = "service" THEN fetch_yahoo_snapshot(UniqueSymbols(all_cefs))
    ELSE { db \in fetch_yahoo_snapshot(UniqueSymbols(all_cefs)) :
             DOMAIN db = UniqueSymbols(all_cefs) }

\* A request arrives on an idle thread.  /data starts with now = time.time();
\* /send_telegram with data = memory_cache['data'], and `if not data`.
t_begin(t) ==
    /\ deploy \in {"service", "threads"}
    /\ thr[t].pc = "idle"
    /\ deploy = "service" => \A u \in Threads : thr[u].pc = "idle" /\ t <= u
    /\ \E kind \in Routes :
         LET free == kind = "get_data" /\ IsFresh(memory_cache, now)
             f == [IdleThread EXCEPT
                     !.runs = IF deploy = "threads" /\ ~free THEN thr[t].runs + 1
                              ELSE thr[t].runs,
                     !.sent = thr[t].sent,
                     !.raced = thr[t].raced,
                     !.kind = kind,
                     !.t = IF kind = "get_data" THEN now ELSE 0,
                     !.data = IF kind = "trigger_telegram" THEN memory_cache.data
                              ELSE None,
                     !.pc = IF kind = "get_data" THEN "cache_data"
                            ELSE IF kind = "trigger_telegram"
                                    /\ ~IsNone(memory_cache.data)
                            THEN "digest" ELSE "read",
                     !.before =
                        [ states |-> cef_alert_states, cache |-> memory_cache,
                          now |-> now,
                          prev |-> IF ~IsNone(last.pass) /\ ~IsError(Val(last.pass))
                                      /\ last.serial
                                   THEN Some([prices |-> last.prices,
                                              cefs |-> Val(last.pass).cefs])
                                   ELSE None ],
                     !.serial = \A u \in Threads \ {t} : thr[u].pc \notin PassPcs ]
         IN  /\ deploy = "threads" => thr[t].runs < MaxRuns \/ free
             /\ thr' = ReaderStep(t, f)
    /\ last' = Idle("thread")
    /\ UNCHANGED <<cef_alert_states, memory_cache, now, sent_count, trail>>
    /\ ThreadFrame

\* get_data: `if memory_cache['data'] and ...`, the read of the data
t_cache_data(t) ==
    /\ thr[t].pc = "cache_data"
    /\ thr' = ReaderStep(t, [thr[t] EXCEPT !.pc = IF ~IsNone(memory_cache.data)
                                                  THEN "cache_time" ELSE "read"])
    /\ last' = Idle("thread")
    /\ UNCHANGED <<cef_alert_states, memory_cache, now, sent_count, trail>>
    /\ ThreadFrame

\* get_data: `... and (now - memory_cache['last_updated'] < CACHE_DURATION)`
t_cache_time(t) ==
    /\ thr[t].pc = "cache_time"
    /\ thr' = ReaderStep(t, [thr[t] EXCEPT
                                !.pc = IF InWindow(memory_cache.last_updated, thr[t].t)
                                       THEN "hit" ELSE "read"])
    /\ last' = Idle("thread")
    /\ UNCHANGED <<cef_alert_states, memory_cache, now, sent_count, trail>>
    /\ ThreadFrame

\* get_data: return jsonify(memory_cache['data'])
t_hit(t) ==
    /\ thr[t].pc = "hit"
    /\ last' = [Reply(thr[t], Val(memory_cache.data)) EXCEPT !.hit = TRUE]
    /\ thr' = ReaderStep(t, Done(thr[t]))
    /\ UNCHANGED <<cef_alert_states, memory_cache, now, sent_count, trail>>
    /\ ThreadFrame

\* generate_data: all_cefs = get_holdings();
\* if not all_cefs: return {"error": "Holdings not found"}
t_read(t) ==
    /\ thr[t].pc = "read"
    /\ thr' = PassStep(t,
          IF get_holdings(holdings_file) = << >>
          THEN [thr[t] EXCEPT !.ran = TRUE, !.sent = {},
                              !.data = Some([error |-> "Holdings not found"]),
                              !.pc = "return"]
          ELSE [thr[t] EXCEPT !.ran = TRUE, !.sent = {},
                              !.all_cefs = get_holdings(holdings_file),
                              !.pc = "check"])
    /\ last' = Idle("thread")
    /\ UNCHANGED <<cef_alert_states, memory_cache, now, sent_count, trail>>
    /\ ThreadFrame

\* if not cef_alert_states:
t_check(t) ==
    /\ thr[t].pc = "check"
    /\ thr' = PassStep(t, [thr[t] EXCEPT !.pc = IF DOMAIN cef_alert_states = {}
                                                THEN "init" ELSE "fetch"])
    /\ last' = Idle("thread")
    /\ UNCHANGED <<cef_alert_states, memory_cache, now, sent_count, trail>>
    /\ ThreadFrame

\* cef_alert_states = {cef: 0 for cef in all_cefs.keys()}
t_init(t) ==
    /\ thr[t].pc = "init"
    /\ cef_alert_states' = [n \in FundNames(thr[t].all_cefs) |-> 0]
    /\ thr' = PassStep(t, [thr[t] EXCEPT !.pc = "fetch"])
    /\ last' = Idle("thread")
    /\ UNCHANGED <<memory_cache, now, sent_count, trail>>
    /\ ThreadFrame

\* unique_symbols and price_db = fetch_yahoo_snapshot(...), which takes d
t_fetch(t) ==
    /\ thr[t].pc = "fetch"
    /\ \E price_db \in ThreadAnswers(thr[t].all_cefs), d \in PassDurations :
         /\ now + d <= MaxTime
         /\ now' = now + d
         /\ thr' = PassStep(t, [thr[t] EXCEPT !.price_db = price_db,
                                              !.fetched = TRUE, !.pc = "clock"])
    /\ last' = Idle("thread")
    /\ UNCHANGED <<cef_alert_states, memory_cache, sent_count, trail>>
    /\ ThreadFrame

\* timestamp = time.strftime('%H:%M:%S') and the empty dashboard_data
t_clock(t) ==
    /\ thr[t].pc = "clock"
    /\ thr' = PassStep(t, [thr[t] EXCEPT
                             !.data = Some([last_updated |-> Timestamp(now),
                                            cefs |-> << >>]),
                             !.i = 1, !.pc = "eval"])
    /\ last' = Idle("thread")
    /\ UNCHANGED <<cef_alert_states, memory_cache, now, sent_count, trail>>
    /\ ThreadFrame

\* the frame after dashboard_data["cefs"].append of fund i's result
Appended(th, ev) ==
    [th EXCEPT !.data = Some([Val(th.data) EXCEPT !.cefs = Append(@, ev.result)]),
               !.evals = Append(@, EvalEntry(ev)),
               !.i = th.i + 1,
               !.pc = IF th.i = Len(th.all_cefs) THEN "return" ELSE "eval"]

\* the holding loop and the alert logic of fund i, with
\* last_lvl = cef_alert_states.get(cef_name, 0) and `if alert_level > last_lvl`,
\* and the append when it is false
t_eval(t) ==
    /\ thr[t].pc = "eval"
    /\ \E ev \in { Evaluate(thr[t].all_cefs[thr[t].i], thr[t].price_db) } :
         thr' = PassStep(t,
            IF Escalates(ev.alert_level, Get(cef_alert_states, ev.result.name, 0))
            THEN [thr[t] EXCEPT !.pc = "send", !.alert_level = ev.alert_level]
            ELSE Appended(thr[t], ev))
    /\ last' = Idle("thread")
    /\ UNCHANGED <<cef_alert_states, memory_cache, now, sent_count, trail>>
    /\ ThreadFrame

\* direction, alert_msg and send_telegram_message(alert_msg): the post takes
\* p and goes through or not (ok)
t_send(t) ==
    /\ thr[t].pc = "send"
    /\ \E ev \in { Evaluate(thr[t].all_cefs[thr[t].i], thr[t].price_db) },
          p \in DigestTimes(creds), ok \in PostOutcomes(creds) :
         /\ now + p <= MaxTime
         /\ now' = now + p
         /\ sent_count' = [sent_count EXCEPT ![ev.result.name] = @ + 1]
         /\ thr' = PassStep(t,
               [thr[t] EXCEPT
                  !.pc = "store",
                  !.alerts = Append(@, [msg |-> ev.msg,
                                        delivered |-> send_telegram_message(creds, ok)]),
                  !.sent = IF deploy = "threads"
                           THEN @ \cup {<< ev.result.name, thr[t].alert_level >>}
                           ELSE @])
    /\ last' = Idle("thread")
    /\ UNCHANGED <<cef_alert_states, memory_cache, trail>>
    /\ ThreadFrame

\* cef_alert_states[cef_name] = alert_level, and the append
t_store(t) ==
    /\ thr[t].pc = "store"
    /\ \E ev \in { Evaluate(thr[t].all_cefs[thr[t].i], thr[t].price_db) } :
         /\ cef_alert_states' = Put(cef_alert_states, ev.result.name, thr[t].alert_level)
         /\ thr' = PassStep(t, Appended(thr[t], ev))
    /\ last' = Idle("thread")
    /\ UNCHANGED <<memory_cache, now, sent_count, trail>>
    /\ ThreadFrame

\* jsonify({"status": "checked", "time": data.get("last_updated")})
CronReply(data) ==
    [ status |-> "checked",
      time |-> IF IsError(data) THEN None ELSE Some(data.last_updated) ]

\* the reply of a handler whose pass returned the error
ErrorReply(th) ==
    IF th.kind = "cron_check" THEN CronReply(Val(th.data))
    ELSE IF th.kind = "get_data" THEN Val(th.data)
    ELSE [success |-> FALSE, message |-> "No data available"]

\* generate_data returns.  cron_check goes on with now = time.time(); then
\* `if "error" not in data` in cron_check and get_data, `if "error" in data`
\* in trigger_telegram, and the replies of the three to an error
t_return(t) ==
    /\ thr[t].pc = "return"
    /\ \E f \in { [thr[t] EXCEPT !.t = IF thr[t].kind = "cron_check" THEN now ELSE @] } :
         IF f.kind = "trigger_telegram"
         THEN IF IsError(Val(f.data))
              THEN /\ thr' = PassStep(t, Done(f))
                   /\ last' = Reply(f, ErrorReply(f))
              ELSE /\ thr' = PassStep(t, [f EXCEPT !.pc = "digest"])
                   /\ last' = Idle("thread")
         ELSE IF Cacheable(memory_cache, Val(f.data), f.t)
              THEN /\ thr' = PassStep(t, [f EXCEPT !.pc = "store_data"])
                   /\ last' = Idle("thread")
              ELSE /\ thr' = PassStep(t, Done(f))
                   /\ last' = Reply(f, ErrorReply(f))
    /\ trail' = Observe(trail, thr[t].evals, thr[t].alerts)
    /\ UNCHANGED <<cef_alert_states, memory_cache, now, sent_count>>
    /\ ThreadFrame

\* memory_cache['data'] = data  (cron_check), = new_data  (get_data)
t_store_data(t) ==
    /\ thr[t].pc = "store_data"
    /\ memory_cache' = [memory_cache EXCEPT !.data = thr[t].data]
    /\ thr' = PassStep(t, [thr[t] EXCEPT !.pc = "stamp"])
    /\ last' = Idle("thread")
    /\ UNCHANGED <<cef_alert_states, now, sent_count, trail>>
    /\ ThreadFrame

\* memory_cache['last_updated'] = now, and the reply
t_stamp(t) ==
    /\ thr[t].pc = "stamp"
    /\ memory_cache' = [memory_cache EXCEPT !.last_updated = thr[t].t]
    /\ thr' = PassStep(t, Done(thr[t]))
    /\ last' = Reply(thr[t],
                     IF thr[t].kind = "cron_check"
                     THEN CronReply(Val(thr[t].data))
                     ELSE Val(thr[t].data))
    /\ UNCHANGED <<cef_alert_states, now, sent_count, trail>>
    /\ ThreadFrame

DigestReply(sent) ==
    [success |-> sent,
     message |-> IF sent THEN "Notification sent!" ELSE "Failed to send"]

\* trigger_telegram: the digest of data, send_telegram_message(message), which
\* takes q and goes through or not (ok), and the reply
t_digest(t) ==
    /\ thr[t].pc = "digest"
    /\ \E ok \in PostOutcomes(creds), q \in DigestTimes(creds) :
         /\ now + q <= MaxTime
         /\ now' = now + q
         /\ last' = [Reply(thr[t], DigestReply(send_telegram_message(creds, ok)))
                       EXCEPT !.digest = Some(send_telegram_message(creds, ok))]
    /\ thr' = ReaderStep(t, Done(thr[t]))
    /\ UNCHANGED <<cef_alert_states, memory_cache, sent_count, trail>>
    /\ ThreadFrame

\* a new instance (cold boot): the module is imported again, and the requests
\* of the old instance are gone
cold_start ==
    /\ deploy = "service"
    /\ thr' = NoThreads
    /\ memory_cache' = InitCache
    /\ cef_alert_states' = EmptyMap
    /\ sent_count' = NoCounts
    /\ trail' = NoTrail
    /\ last' = Idle("cold_start")
    /\ UNCHANGED <<deploy, holdings_file, creds, now, proc, disk, today, calc>>

\* time passes between two requests
Tick ==
    /\ deploy = "service"
    /\ \A u \in Threads : thr[u].pc = "idle"
    /\ \E d \in Ticks : now + d <= MaxTime /\ now' = now + d
    /\ last' = Idle("env")
    /\ UNCHANGED <<deploy, holdings_file, creds, cef_alert_states, memory_cache,
                   sent_count, trail, proc, disk, today, thr, calc>>

\* all_holdings.json is replaced, removed or damaged between two requests
edit_holdings ==
    /\ deploy = "service"
    /\ \A u \in Threads : thr[u].pc = "idle"
    /\ holdings_file' \in HoldingsFiles \ {holdings_file}
    /\ last' = Idle("env")
    /\ UNCHANGED <<deploy, creds, cef_alert_states, memory_cache, now, sent_count,
                   trail, proc, disk, today, thr, calc>>

-----------------------------------------------------------------------------
(* tracker.py: main(), export_dashboard, restore_state, the reference file *)

DASHBOARD_FILE == "dashboard_data.json"
REFERENCE_FILE == "reference.json"
\* (variant: the snapshot is written in place)
TempFileInPlace == DASHBOARD_FILE
\* temp_file = DASHBOARD_FILE + ".tmp"
TempFile == "dashboard_data.json.tmp"
FileNames == {DASHBOARD_FILE, "dashboard_data.json.tmp", REFERENCE_FILE}

\* the last day the model reaches; dates are day numbers, "" is 0
MaxDay == 2
\* the clock at which the loop stops sleeping
MaxLoopTime == 120
\* time.sleep(60)
SleepSeconds == 60

\* a file: absent, opened for writing and not yet closed (a prefix of the
\* JSON text, which json.load rejects), or complete with its document
Absent == [state |-> "absent", doc |-> None]
Partial == [state |-> "partial", doc |-> None]
Complete(doc) == [state |-> "complete", doc |-> Some(doc)]

\* (variant: the restored entry keeps a price)
RestoredEntryPriced(h) ==
    [change_percent |-> h.change, source |-> h.source, price |-> Some(1),
     prev_close |-> None]

\* restore_state(): symbol -> {change_percent, source, price: None,
\* prev_close: None} for every holding of the snapshot with a symbol and a
\* change; {} when the file is absent or json.load raises
RestoredEntry(h) ==
    [change_percent |-> h.change, source |-> h.source, price |-> None, prev_close |-> None]

RECURSIVE RestoreHoldings(_, _, _)
RestoreHoldings(db, holdings, j) ==
    IF j > Len(holdings) THEN db
    ELSE LET h == holdings[j]
         IN  RestoreHoldings(
                 IF h.symbol # "" /\ ~IsNone(h.change)
                 THEN Put(db, h.symbol, RestoredEntry(h)) ELSE db,
                 holdings, j + 1)

RECURSIVE RestoreCefs(_, _, _)
RestoreCefs(db, cefs, i) ==
    IF i > Len(cefs) THEN db
    ELSE RestoreCefs(RestoreHoldings(db, cefs[i].holdings, 1), cefs, i + 1)

restore_state(file) ==
    IF file.state = "complete" THEN RestoreCefs(EmptyMap, Val(file.doc).cefs, 1)
    ELSE EmptyMap

\* load_reference()
NoReference == [date |-> 0, prices |-> EmptyMap]
load_reference(file) ==
    IF file.state = "complete" THEN Val(file.doc) ELSE NoReference

\* `for cef_name, holdings in all_cefs.items()` of export_dashboard;
\* last_lvl = cef_alert_states[cef_name]
RECURSIVE LoopFundLoop(_, _, _, _, _, _)
LoopFundLoop(st, all_cefs, i, price_db, has_keys, net) ==
    IF i > Len(all_cefs) THEN st
    ELSE LoopFundLoop(
             FundStep(st, all_cefs[i], price_db, st.states[all_cefs[i].name],
                      has_keys, net[all_cefs[i].name]),
             all_cefs, i + 1, price_db, has_keys, net)

\* export_dashboard(all_cefs, price_db, ref_prices, cef_alert_states) up to
\* the file write: the dashboard_data it is about to write, the alert states.
\* t is the clock time.strftime reads in its first line.
export_dashboard(all_cefs, price_db, states, has_keys, net, t) ==
    LET st == LoopFundLoop([NoPass EXCEPT !.states = states],
                           all_cefs, 1, price_db, has_keys, net)
    IN  [ data |-> [last_updated |-> Timestamp(t), cefs |-> st.cefs],
          states |-> st.states, alerts |-> st.alerts, evals |-> st.evals ]

\* (variant: the response replaces the map)
UpdateReplace(db, more) == more

\* price_db.update(yahoo_data)
Update(db, more) ==
    [s \in (DOMAIN db) \cup (DOMAIN more) |-> IF s \in DOMAIN more THEN more[s] ELSE db[s]]

\* main() before it has run a line
BootProc ==
    [ pc |-> "boot", all_cefs |-> << >>, ref_data |-> NoReference,
      price_db |-> EmptyMap, out |-> None, ret |-> "top" ]

\* (variant: the new day keeps the alert levels)
RolloverKeepLevels(all_cefs, states) == states
\* cef_alert_states = {cef: 0 for cef in all_cefs.keys()} of the midnight reset
RolloverLevels(all_cefs, states) == [n \in FundNames(all_cefs) |-> 0]

\* main() from its first line to the first export_dashboard's file write
main_boot ==
    /\ deploy = "loop"
    /\ UNCHANGED <<thr, calc>>
    /\ proc.pc = "boot"
    /\ IF holdings_file.state # "ok"
       THEN /\ proc' = [proc EXCEPT !.pc = "exit"]
            /\ last' = Idle("exit")
            /\ UNCHANGED <<cef_alert_states, now, sent_count, trail>>
       ELSE \E net \in Transports(holdings_file.funds) :
              \E all_cefs \in { holdings_file.funds },
                 price_db \in { restore_state(disk[DASHBOARD_FILE]) } :
              \E r \in { export_dashboard(all_cefs, price_db,
                                           [n \in FundNames(all_cefs) |-> 0],
                                           creds, net, now) } :
              \E p \in PostTimes(r.alerts, creds) :
                  /\ now + p <= MaxLoopTime
                  /\ now' = now + p
                  /\ proc' = [ pc |-> "write", all_cefs |-> all_cefs,
                               ref_data |-> load_reference(disk[REFERENCE_FILE]),
                               price_db |-> price_db, out |-> Some(r.data),
                               ret |-> "top" ]
                  /\ cef_alert_states' = r.states
                  /\ sent_count' = Counted(sent_count, r.alerts)
                  /\ trail' = Observe(trail, r.evals, r.alerts)
                  /\ last' = [Idle("boot_export") EXCEPT !.alerts = r.alerts,
                                 !.evals = r.evals, !.pass = Some(r.data)]
    /\ UNCHANGED <<deploy, holdings_file, creds, memory_cache, disk, today>>

\* with open(temp_file, 'w') as f: the file is created or truncated
write_open ==
    /\ deploy = "loop"
    /\ UNCHANGED <<thr, calc>>
    /\ proc.pc = "write"
    /\ disk' = [disk EXCEPT ![TempFile] = Partial]
    /\ proc' = [proc EXCEPT !.pc = "dump"]
    /\ last' = Idle("write_open")
    /\ UNCHANGED <<deploy, holdings_file, creds, cef_alert_states, memory_cache, now,
                   sent_count, trail, today>>

\* json.dump(dashboard_data, f) and the end of the with block
write_close ==
    /\ deploy = "loop"
    /\ UNCHANGED <<thr, calc>>
    /\ proc.pc = "dump"
    /\ disk' = [disk EXCEPT ![TempFile] = Complete(Val(proc.out))]
    /\ proc' = [proc EXCEPT !.pc = "replace"]
    /\ last' = Idle("write_close")
    /\ UNCHANGED <<deploy, holdings_file, creds, cef_alert_states, memory_cache, now,
                   sent_count, trail, today>>

\* os.replace(temp_file, DASHBOARD_FILE)
replace ==
    /\ deploy = "loop"
    /\ UNCHANGED <<thr, calc>>
    /\ proc.pc = "replace"
    /\ disk' = IF TempFile = DASHBOARD_FILE THEN disk
               ELSE [disk EXCEPT ![DASHBOARD_FILE] = disk[TempFile],
                                 ![TempFile] = Absent]
    /\ proc' = [proc EXCEPT !.pc = proc.ret, !.out = None]
    /\ last' = Idle("replace")
    /\ UNCHANGED <<deploy, holdings_file, creds, cef_alert_states, memory_cache, now,
                   sent_count, trail, today>>

\* the top of `while True`: the midnight reset, up to save_reference's open()
loop_top ==
    /\ deploy = "loop"
    /\ UNCHANGED <<thr, calc>>
    /\ proc.pc = "top"
    /\ IF proc.ref_data.date # today
       THEN /\ proc' = [proc EXCEPT !.ref_data = [date |-> today, prices |-> EmptyMap],
                                    !.price_db = EmptyMap,
                                    !.pc = "save_ref"]
            /\ cef_alert_states' = RolloverLevels(proc.all_cefs, cef_alert_states)
            /\ disk' = [disk EXCEPT ![REFERENCE_FILE] = Partial]
            /\ sent_count' = NoCounts
            /\ trail' = NoTrail
            /\ last' = [Idle("rollover") EXCEPT !.rolled = Some(cef_alert_states)]
       ELSE /\ proc' = [proc EXCEPT !.pc = "fetch"]
            /\ last' = Idle("top")
            /\ UNCHANGED <<cef_alert_states, disk, sent_count, trail>>
    /\ UNCHANGED <<deploy, holdings_file, creds, memory_cache, now, today>>

\* save_reference(ref_data): json.dump and the end of the with block
save_reference ==
    /\ deploy = "loop"
    /\ UNCHANGED <<thr, calc>>
    /\ proc.pc = "save_ref"
    /\ disk' = [disk EXCEPT ![REFERENCE_FILE] = Complete(proc.ref_data)]
    /\ proc' = [proc EXCEPT !.pc = "fetch"]
    /\ last' = [last EXCEPT !.op = "save_reference"]
    /\ UNCHANGED <<deploy, holdings_file, creds, cef_alert_states, memory_cache, now,
                   sent_count, trail, today>>

\* the Yahoo batch fetch, which takes d, and, when it returned anything,
\* price_db.update and export_dashboard up to its file write
fetch ==
    /\ deploy = "loop"
    /\ UNCHANGED <<thr, calc>>
    /\ proc.pc = "fetch"
    /\ \E yahoo_data \in fetch_yahoo_snapshot(UniqueSymbols(proc.all_cefs)),
          net \in Transports(proc.all_cefs), d \in PassDurations :
         IF yahoo_data # EmptyMap
         THEN \E price_db \in { Update(proc.price_db, yahoo_data) } :
              \E r \in { export_dashboard(proc.all_cefs, price_db, cef_alert_states,
                                           creds, net, now + d) } :
              \E p \in PostTimes(r.alerts, creds) :
                  /\ now + d + p <= MaxLoopTime
                  /\ now' = now + d + p
                  /\ proc' = [proc EXCEPT !.price_db = price_db, !.pc = "write",
                                          !.out = Some(r.data), !.ret = "sleep"]
                  /\ cef_alert_states' = r.states
                  /\ sent_count' = Counted(sent_count, r.alerts)
                  /\ trail' = Observe(trail, r.evals, r.alerts)
                  /\ last' = [Idle("export") EXCEPT !.fetched = TRUE,
                                 !.prices = Some(yahoo_data),
                                 !.alerts = r.alerts, !.evals = r.evals,
                                 !.pass = Some(r.data),
                                 !.rolled = IF last.op \in {"rollover", "save_reference"}
                                            THEN last.rolled ELSE None]
         ELSE /\ now + d <= MaxLoopTime
              /\ now' = now + d
              /\ proc' = [proc EXCEPT !.pc = "sleep"]
              /\ last' = [Idle("no_data") EXCEPT !.fetched = TRUE]
              /\ UNCHANGED <<cef_alert_states, sent_count, trail>>
    /\ UNCHANGED <<deploy, holdings_file, creds, memory_cache, disk, today>>

\* time.sleep(60)
sleep ==
    /\ deploy = "loop"
    /\ UNCHANGED <<thr, calc>>
    /\ proc.pc = "sleep"
    /\ now + SleepSeconds <= MaxLoopTime
    /\ now' = now + SleepSeconds
    /\ proc' = [proc EXCEPT !.pc = "top"]
    /\ last' = Idle("sleep")
    /\ UNCHANGED <<deploy, holdings_file, creds, cef_alert_states, memory_cache,
                   sent_count, trail, disk, today>>

\* the date changes
midnight ==
    /\ deploy = "loop"
    /\ UNCHANGED <<thr, calc>>
    /\ today < MaxDay
    /\ today' = today + 1
    /\ last' = Idle("env")
    /\ UNCHANGED <<deploy, holdings_file, creds, cef_alert_states, memory_cache, now,
                   sent_count, trail, proc, disk>>

\* the process dies (at any line) or has exited, and is started again: its
\* memory is gone, the files stay as they are
restart ==
    /\ deploy = "loop"
    /\ UNCHANGED <<thr, calc>>
    /\ proc.pc # "boot"
    /\ proc' = BootProc
    /\ cef_alert_states' = EmptyMap
    /\ sent_count' = NoCounts
    /\ trail' = NoTrail
    /\ last' = Idle("restart")
    /\ UNCHANGED <<deploy, holdings_file, creds, memory_cache, now, disk, today>>

-----------------------------------------------------------------------------
(* One fund's evaluation on arbitrary inputs                               *)

\* the longest fund
MaxHoldings == 3

RECURSIVE SeqsUpTo(_, _)
SeqsUpTo(S, n) ==
    IF n = 0 THEN { << >> }
    ELSE LET shorter == SeqsUpTo(S, n - 1)
         IN  shorter \cup { Append(q, x) : q \in { r \in shorter : Len(r) = n - 1 }, x \in S }

NoCalc == [holdings |-> << >>, price_db |-> EmptyMap, out |-> None]

InitCalc ==
    /\ deploy = "calc"
    /\ calc \in { [holdings |-> h, price_db |-> db, out |-> None] :
                    h \in SeqsUpTo(HoldingChoices, MaxHoldings), db \in CalcPriceMaps }
    /\ holdings_file = [state |-> "ok", funds |-> << >>]
    /\ creds = TRUE
    /\ cef_alert_states = EmptyMap
    /\ memory_cache = InitCache
    /\ now = 0
    /\ last = Idle("cold_start")
    /\ sent_count = NoCounts
    /\ trail = NoTrail
    /\ proc = BootProc
    /\ disk = [f \in FileNames |-> Absent]
    /\ today = 1
    /\ thr = NoThreads

\* one iteration of the fund loop on the fund "F" stored at level last_lvl
evaluate ==
    /\ deploy = "calc"
    /\ IsNone(calc.out)
    /\ \E last_lvl \in {0, 1, 2} :
         LET st == FundStep([NoPass EXCEPT !.states = [n \in {"F"} |-> last_lvl]],
                            [name |-> "F", holdings |-> calc.holdings],
                            calc.price_db, last_lvl, TRUE, TRUE)
         IN  calc' = [calc EXCEPT !.out =
                         Some([ last_lvl |-> last_lvl,
                                level |-> st.states["F"],
                                result |-> st.cefs[1],
                                eval |-> st.evals[1],
                                alerts |-> st.alerts ])]
    /\ UNCHANGED <<deploy, holdings_file, creds, cef_alert_states, memory_cache, now,
                   last, sent_count, trail, proc, disk, today, thr>>

-----------------------------------------------------------------------------
(* restore_state on the snapshots export_dashboard writes                  *)

\* the longest holding list of such a fund
MaxSnapshotHoldings == 2

\* one fund "F1", or "F1" and "F2", with any holding lists
SnapshotFunds ==
    LET lists == SeqsUpTo(RestoreHoldingChoices, MaxSnapshotHoldings)
    IN  { << [name |-> "F1", holdings |-> h] >> : h \in lists }
        \cup { << [name |-> "F1", holdings |-> h1], [name |-> "F2", holdings |-> h2] >> :
                 h1 \in lists, h2 \in lists }

\* what restore_state can find under the snapshot's name: no file, one
\* json.load rejects, or the document export_dashboard wrote for some funds
\* and price map
InitRestore ==
    /\ deploy = "restore"
    /\ calc \in { [funds |-> f, price_db |-> db, found |-> k, file |-> None, out |-> None] :
                    f \in SnapshotFunds, db \in RestorePriceMaps,
                    k \in {"absent", "partial", "complete"} }
    /\ holdings_file = [state |-> "ok", funds |-> << >>]
    /\ creds = TRUE
    /\ cef_alert_states = EmptyMap
    /\ memory_cache = InitCache
    /\ now = 0
    /\ last = Idle("restart")
    /\ sent_count = NoCounts
    /\ trail = NoTrail
    /\ proc = BootProc
    /\ disk = [f \in FileNames |-> Absent]
    /\ today = 1
    /\ thr = NoThreads

\* the run that left the file: export_dashboard and its write, or nothing
snapshot ==
    /\ deploy = "restore"
    /\ IsNone(calc.file)
    /\ calc' = [calc EXCEPT !.file =
                   Some(IF calc.found = "absent" THEN Absent
                        ELSE IF calc.found = "partial" THEN Partial
                        ELSE Complete(export_dashboard(
                                          calc.funds, calc.price_db,
                                          [n \in FundNames(calc.funds) |-> 0],
                                          FALSE,
                                          [n \in FundNames(calc.funds) |-> FALSE],
                                          0).data))]
    /\ UNCHANGED <<deploy, holdings_file, creds, cef_alert_states, memory_cache, now,
                   last, sent_count, trail, proc, disk, today, thr>>

\* price_db = restore_state()
restore ==
    /\ deploy = "restore"
    /\ ~IsNone(calc.file)
    /\ IsNone(calc.out)
    /\ calc' = [calc EXCEPT !.out = Some(restore_state(Val(calc.file)))]
    /\ UNCHANGED <<deploy, holdings_file, creds, cef_alert_states, memory_cache, now,
                   last, sent_count, trail, proc, disk, today, thr>>

NextRestore == snapshot \/ restore

\* restore_state on its own
SpecRestore == InitRestore /\ [][NextRestore]_vars

-----------------------------------------------------------------------------
(* One fund over several passes, with moves at and around the thresholds   *)

\* passes between two resets
MaxPasses == 3

InitLevels ==
    /\ deploy = "levels"
    /\ calc = [holdings |-> << >>, price_db |-> EmptyMap, out |-> None,
               level |-> 0, sent |-> << >>, passes |-> 0]
    /\ holdings_file = [state |-> "ok", funds |-> << >>]
    /\ creds = TRUE
    /\ cef_alert_states = EmptyMap
    /\ memory_cache = InitCache
    /\ now = 0
    /\ last = Idle("cold_start")
    /\ sent_count = NoCounts
    /\ trail = NoTrail
    /\ proc = BootProc
    /\ disk = [f \in FileNames |-> Absent]
    /\ today = 1
    /\ thr = NoThreads

\* one more pass over the fund "F": calc.level is its stored level, calc.sent
\* the levels of the alerts sent for it so far
next_pass ==
    /\ deploy = "levels"
    /\ calc.passes < MaxPasses
    /\ \E holdings \in LevelFunds, c \in LevelChanges :
         LET price_db == [sym \in {"A", "B", "C"} |-> YahooEntry(c)]
             st == FundStep([NoPass EXCEPT !.states = [n \in {"F"} |-> calc.level]],
                            [name |-> "F", holdings |-> holdings],
                            price_db, calc.level, TRUE, TRUE)
         IN  calc' = [ holdings |-> holdings, price_db |-> price_db,
                       out |-> Some([ last_lvl |-> calc.level,
                                      level |-> st.states["F"],
                                      result |-> st.cefs[1],
                                      eval |-> st.evals[1],
                                      alerts |-> st.alerts ]),
                       level |-> st.states["F"],
                       sent |-> calc.sent
                                  \o [j \in 1..Len(st.alerts) |-> st.alerts[j].msg.level],
                       passes |-> calc.passes + 1 ]
    /\ UNCHANGED <<deploy, holdings_file, creds, cef_alert_states, memory_cache, now,
                   last, sent_count, trail, proc, disk, today, thr>>

\* one fund's passes between two resets
SpecLevels == InitLevels /\ [][next_pass]_vars

InitThreads ==
    /\ deploy = "threads"
    /\ thr = NoThreads
    /\ calc = NoCalc
    /\ holdings_file = [state |-> "ok", funds |-> HoldingsA]
    /\ creds = TRUE
    /\ cef_alert_states = EmptyMap
    /\ memory_cache = InitCache
    /\ now = 0
    /\ last = Idle("cold_start")
    /\ sent_count = NoCounts
    /\ trail = NoTrail
    /\ proc = BootProc
    /\ disk = [f \in FileNames |-> Absent]
    /\ today = 1

NextThreads ==
    \E t \in Threads :
       \/ t_begin(t)
       \/ t_cache_data(t)
       \/ t_cache_time(t)
       \/ t_hit(t)
       \/ t_read(t)
       \/ t_check(t)
       \/ t_init(t)
       \/ t_fetch(t)
       \/ t_clock(t)
       \/ t_eval(t)
       \/ t_send(t)
       \/ t_store(t)
       \/ t_return(t)
       \/ t_store_data(t)
       \/ t_stamp(t)
       \/ t_digest(t)

\* the service with requests that overlap
SpecThreads == InitThreads /\ [][NextThreads]_vars
\* the evaluation of one fund
SpecCalc == InitCalc /\ [][evaluate]_vars

-----------------------------------------------------------------------------
InitService ==
    /\ deploy = "service"
    /\ thr = NoThreads
    /\ calc = NoCalc
    /\ holdings_file \in HoldingsFiles
    /\ creds \in BOOLEAN
    /\ cef_alert_states = EmptyMap
    /\ memory_cache = InitCache
    /\ now = 0
    /\ last = Idle("cold_start")
    /\ sent_count = NoCounts
    /\ trail = NoTrail
    /\ proc = BootProc
    /\ disk = [f \in FileNames |-> Absent]
    /\ today = 1

InitLoop ==
    /\ deploy = "loop"
    /\ thr = NoThreads
    /\ calc = NoCalc
    /\ holdings_file \in { [state |-> "missing", funds |-> << >>],
                           [state |-> "ok", funds |-> HoldingsA] }
    /\ creds \in BOOLEAN
    /\ cef_alert_states = EmptyMap
    /\ memory_cache = InitCache
    /\ now = 0
    /\ last = Idle("restart")
    /\ sent_count = NoCounts
    /\ trail = NoTrail
    /\ proc = BootProc
    /\ disk = [f \in FileNames |-> Absent]
    /\ today = 1

NextService ==
    \/ NextThreads
    \/ cold_start
    \/ Tick
    \/ edit_holdings

NextLoop ==
    \/ main_boot
    \/ write_open
    \/ write_close
    \/ replace
    \/ loop_top
    \/ save_reference
    \/ fetch
    \/ sleep
    \/ midnight
    \/ restart

Init == InitService \/ InitThreads \/ InitLoop
Next == NextService \/ NextLoop

\* either program
Spec == Init /\ [][Next]_vars
\* the request-driven service, its requests one after another or overlapping
SpecService == (InitService \/ InitThreads) /\ [][NextService]_vars
\* the polling loop
SpecLoop == InitLoop /\ [][NextLoop]_vars

-----------------------------------------------------------------------------
(* Properties                                                              *)

\* the level the alert logic reads for fund n
Lvl(states, n) == Get(states, n, 0)

ResetOps == {"cold_start", "rollover", "restart"}
\* the program is the request-driven service
Service == deploy \in {"service", "threads"}
\* the stored levels and the cache that the request completed by the step
\* found when it arrived; for a step of the loop, the ones before the step
LevelsBefore ==
    IF IsNone(last'.before) THEN cef_alert_states ELSE Val(last'.before).states
CacheBefore ==
    IF IsNone(last'.before) THEN memory_cache ELSE Val(last'.before).cache
\* two passes of the service have run at the same time since the cold start
Raced == \E t \in Threads : thr[t].raced
\* the step is thread t's step out of pc
StepFrom(t, pc) ==
    /\ thr[t].pc = pc
    /\ thr'[t].pc # pc \/ thr'[t].i # thr[t].i
    /\ last'.op # "cold_start"
RanPass(l) == ~IsNone(l.pass) /\ ~IsError(Val(l.pass))
AlertedIn(l, n) == \E j \in 1..Len(l.alerts) : l.alerts[j].msg.cef = n

\* C1: alert ratchet.  Every stored level is 0, 1 or 2; as long as no two
\* passes have run at the same time, no step lowers a fund's stored level
\* except a reset (cold start, day rollover), which puts it at 0; and after a
\* pass that ran with no other pass beside it every level is at least what it
\* was before the pass, whatever move the pass computed.
C1_AlertRatchet ==
    [][ \A n \in AllFundNames :
          /\ Lvl(cef_alert_states', n) \in {0, 1, 2}
          /\ ~Raced' /\ Lvl(cef_alert_states', n) < Lvl(cef_alert_states, n)
                => last'.op \in ResetOps /\ Lvl(cef_alert_states', n) = 0
          /\ ~IsNone(last'.pass) /\ last'.serial
                => Lvl(cef_alert_states', n) >= Lvl(LevelsBefore, n) ]_vars

\* a pass computed level 0 for a fund stored at level 2, and it stayed at 2
C1_Witness ==
    /\ RanPass(last)
    /\ \E k \in 1..Len(last.evals) :
          /\ last.evals[k].alert_level = 0
          /\ Lvl(cef_alert_states, last.evals[k].name) = 2

\* C2: at most one alert per escalation.  In a pass that ran with no other
\* pass beside it a fund is alerted exactly when the level computed for it is
\* above the level stored before the pass, and its stored level then is the
\* computed one; as long as no two passes have run at the same time, no fund
\* gets more than 2 alerts between resets, and the moves 0.3, 0.6, 1.2, 0.4
\* from level 0 alert at 0.6 and at 1.2 only and end at level 2.
C2_OneAlertPerEscalation ==
    /\ [][ ~IsNone(last'.pass) /\ last'.serial =>
             \A k \in 1..Len(last'.evals) :
                LET e == last'.evals[k]
                IN  /\ AlertedIn(last', e.name)
                          <=> e.alert_level > Lvl(LevelsBefore, e.name)
                    /\ AlertedIn(last', e.name)
                          => Lvl(cef_alert_states', e.name) = e.alert_level
                    /\ Cardinality({ j \in 1..Len(last'.alerts) :
                                       last'.alerts[j].msg.cef = e.name }) <= 1 ]_vars
    /\ [](~Raced => \A n \in AllFundNames : sent_count[n] <= 2)
    /\ [](~Raced /\ trail.on /\ Len(trail.flags) = Len(Scenario)
            => /\ trail.flags = << FALSE, TRUE, TRUE, FALSE >>
               /\ sent_count["CEF1"] = 2
               /\ Lvl(cef_alert_states, "CEF1") = 2)

\* CEF1 went through the whole scenario since the last reset
C2_Witness == ~Raced /\ trail.on /\ Len(trail.flags) = Len(Scenario)

\* C4 as stated: a getData call inside the window is served from the cache
\* without a fetch, and a getData call on a stored but expired cache always
\* invokes the price provider.
C4_Original ==
    [][ last'.op = "get_data" /\ last'.serial /\ ~IsNone(CacheBefore.data) =>
          IF last'.t - CacheBefore.last_updated < CACHE_DURATION
          THEN /\ last'.response = CacheBefore.data
               /\ ~last'.fetched
               /\ memory_cache' = CacheBefore
          ELSE last'.fetched ]_vars

\* C4 (amended): a getData call inside the window is served from the cache
\* without a fetch; a getData call on an expired cache invokes the price
\* provider if the holdings store has funds, and otherwise returns the error
\* result without a fetch.  For a call that runs beside a pass of another
\* request the window is judged on the clock the call read on arrival and the
\* last_updated it finds, and the reply is the data in the cache at the
\* return.
C4_CacheFreshness ==
    /\ [][ last'.op = "get_data" /\ last'.serial /\ ~IsNone(CacheBefore.data) =>
             IF last'.t - CacheBefore.last_updated < CACHE_DURATION
             THEN /\ last'.response = CacheBefore.data
                  /\ ~last'.fetched
                  /\ memory_cache' = CacheBefore
             ELSE IF get_holdings(holdings_file) # << >>
                  THEN last'.fetched /\ last'.response = memory_cache'.data
                  ELSE ~last'.fetched /\ IsError(Val(last'.response)) ]_vars
    /\ [][ \A t \in Threads :
             /\ StepFrom(t, "cache_time")
                   => (thr'[t].pc = "hit"
                         <=> thr[t].t - memory_cache.last_updated < CACHE_DURATION)
             /\ StepFrom(t, "hit")
                   => /\ last'.response = memory_cache.data
                      /\ ~last'.fetched
                      /\ memory_cache' = memory_cache ]_vars
    /\ [][ last'.op = "get_data" /\ ~last'.hit
           => IF get_holdings(holdings_file) # << >>
              THEN last'.fetched /\ last'.response = last'.pass
              ELSE ~last'.fetched /\ IsError(Val(last'.response)) ]_vars

\* a getData call was served from a cache stored some time ago
C4_Witness ==
    /\ last.op = "get_data"
    /\ last.hit
    /\ now > memory_cache.last_updated

\* C5: DataUnavailable.  A pass started by /data or /cron on an empty or
\* unreadable holdings store returns the error result, asks the provider
\* nothing, sends nothing and leaves the cache and the alert levels as they
\* were; the cache never holds an error result, and a /data call answered
\* from the cache gets the data stored before the failure.
C5_DataUnavailable ==
    /\ [][ /\ Service
           /\ get_holdings(holdings_file) = << >>
           /\ \/ last'.op = "cron_check"
              \/ /\ last'.op = "get_data"
                 /\ ~(~IsNone(CacheBefore.data)
                        /\ last'.t - CacheBefore.last_updated < CACHE_DURATION)
           => /\ ~IsNone(last'.pass) /\ IsError(Val(last'.pass))
              /\ ~last'.fetched
              /\ last'.alerts = << >>
              /\ memory_cache' = CacheBefore
              /\ cef_alert_states' = LevelsBefore
              /\ last'.op = "get_data" => last'.response = last'.pass ]_vars
    /\ [][ \A t \in Threads :
             \/ StepFrom(t, "read") /\ get_holdings(holdings_file) = << >>
             \/ StepFrom(t, "return") /\ IsError(Val(thr[t].data))
             => /\ memory_cache' = memory_cache
                /\ cef_alert_states' = cef_alert_states
                /\ sent_count' = sent_count /\ now' = now ]_vars
    /\ [](~IsNone(memory_cache.data) => ~IsError(Val(memory_cache.data)))
    /\ [][ last'.op = "get_data" /\ last'.hit
           => last'.response = memory_cache.data /\ ~IsError(Val(last'.response)) ]_vars

\* /cron failed on an empty store while an earlier result is still cached
C5_Witness ==
    /\ last.op = "cron_check"
    /\ ~IsNone(last.pass) /\ IsError(Val(last.pass))
    /\ ~IsNone(memory_cache.data)

\* C6: a failed notification is not fatal.  When an alert of a pass was not
\* delivered, the pass still reports every fund and /data and /cron go on to
\* their stores into the cache; when no other pass ran beside it, every
\* alerted fund's stored level is the computed level and the cache holds the
\* result; the loop goes on to write it.  The store of the level after a post
\* that failed puts the fund at the computed level, and no pass that runs
\* alone alerts a fund at a level it already has.
C6_NotifyFailureNonFatal ==
    /\ [][ RanPass(last') /\ (\E j \in 1..Len(last'.alerts) : ~last'.alerts[j].delivered)
           => /\ Len(Val(last'.pass).cefs) =
                    IF Service THEN Len(get_holdings(holdings_file))
                    ELSE Len(proc'.all_cefs)
              /\ last'.serial =>
                    \A j \in 1..Len(last'.alerts) :
                       Lvl(cef_alert_states', last'.alerts[j].msg.cef)
                           = last'.alerts[j].msg.level
              /\ last'.op \in {"get_data", "cron_check"}
                    => /\ memory_cache'.last_updated = last'.t
                       /\ last'.serial => memory_cache'.data = last'.pass
              /\ last'.op \in {"boot_export", "export"}
                    => proc'.pc = "write" /\ proc'.out = last'.pass ]_vars
    /\ [][ \A t \in Threads :
             StepFrom(t, "store") /\ ~thr[t].alerts[Len(thr[t].alerts)].delivered
             => /\ Lvl(cef_alert_states', thr[t].all_cefs[thr[t].i].name)
                      = thr[t].alert_level
                /\ thr'[t].pc \in {"eval", "return"} ]_vars
    /\ [][ last'.serial =>
             \A j \in 1..Len(last'.alerts) :
                last'.alerts[j].msg.level > Lvl(LevelsBefore, last'.alerts[j].msg.cef) ]_vars

\* the post of the first alert of the last pass failed, the pass went on and
\* delivered the alert of the next fund, and both funds are at their new levels
C6_Witness ==
    /\ RanPass(last)
    /\ Len(last.alerts) = 2
    /\ ~last.alerts[1].delivered
    /\ last.alerts[2].delivered
    /\ \A j \in 1..2 :
          Lvl(cef_alert_states, last.alerts[j].msg.cef) = last.alerts[j].msg.level

\* C3: day rollover.  When the loop finds the stored reference date different
\* from the current date, it puts every fund's level at 0, empties the
\* baseline prices and price_db and stores the new date (save_reference then
\* writes it); in the pass after a rollover every fund whose absolute move is
\* 0.6 is alerted at level 1, whatever its level was before the rollover.
C3_DayRollover ==
    /\ [][ /\ deploy = "loop" /\ proc.pc = "top" /\ proc'.pc # "top"
           /\ last'.op # "restart"
           /\ proc.ref_data.date # today
           => /\ \A n \in FundNames(proc.all_cefs) : cef_alert_states'[n] = 0
              /\ proc'.ref_data = [date |-> today, prices |-> EmptyMap]
              /\ proc'.price_db = EmptyMap
              /\ proc'.pc = "save_ref" ]_vars
    /\ [][ proc.pc = "save_ref" /\ proc'.pc = "fetch"
           => /\ disk'[REFERENCE_FILE] = Complete(proc.ref_data)
              /\ proc.ref_data.prices = EmptyMap ]_vars
    /\ [][ last'.op = "export" /\ ~IsNone(last'.rolled)
           => \A k \in 1..Len(last'.evals) :
                 Abs(last'.evals[k].implied_move) = 600
                 => \E j \in 1..Len(last'.alerts) :
                       /\ last'.alerts[j].msg.cef = last'.evals[k].name
                       /\ last'.alerts[j].msg.level = 1 ]_vars

\* a fund at level 2 before the rollover was alerted at level 1 on a move of
\* 0.6 in the pass after it
C3_Witness ==
    /\ last.op = "export"
    /\ ~IsNone(last.rolled)
    /\ \E k \in 1..Len(last.evals) :
          /\ Abs(last.evals[k].implied_move) = 600
          /\ Lvl(Val(last.rolled), last.evals[k].name) = 2
          /\ \E j \in 1..Len(last.alerts) :
                /\ last.alerts[j].msg.cef = last.evals[k].name
                /\ last.alerts[j].msg.level = 1

\* C7: durable write atomicity.  The file under the snapshot's name is never
\* a partially written one: it is absent (nothing committed yet) or a
\* complete snapshot, and it changes only in the replace step, to the
\* complete new snapshot; so it is intact after a crash between the write of
\* the temp file and the replace, and restore_state reads a complete file.
C7_AtomicSnapshot ==
    /\ [](disk[DASHBOARD_FILE].state \in {"absent", "complete"})
    /\ [][ disk'[DASHBOARD_FILE] # disk[DASHBOARD_FILE]
           => /\ proc.pc = "replace" /\ proc'.pc = proc.ret
              /\ disk'[DASHBOARD_FILE] = Complete(Val(proc.out)) ]_vars
    /\ [][ last'.op = "restart" => disk'[DASHBOARD_FILE] = disk[DASHBOARD_FILE] ]_vars

\* the process was restarted after a crash between the write of the temp
\* file and the replace, with an earlier snapshot committed
C7_Witness ==
    /\ last.op = "restart"
    /\ disk[TempFile].state # "absent"
    /\ disk[DASHBOARD_FILE].state = "complete"
    /\ disk[TempFile] # disk[DASHBOARD_FILE]

-----------------------------------------------------------------------------
(* Concurrent passes                                                       *)

\* C8: in the request-driven service with interleaved passes, no two passes
\* both send a notification for the same escalation (fund and level) of the
\* same fund, and a stored level is never overwritten by a lower level.
C8_Original ==
    /\ [](\A t1 \in Threads, t2 \in Threads :
            t1 # t2 => thr[t1].sent \cap thr[t2].sent = {})
    /\ [][\A n \in AllFundNames : Lvl(cef_alert_states', n) >= Lvl(cef_alert_states, n)]_vars

-----------------------------------------------------------------------------
(* Aggregation result and degenerate funds                                 *)

\* the holding has a price entry that carries a change_percent
KnownChange(stock, price_db) ==
    /\ stock.symbol \in DOMAIN price_db
    /\ ~IsNone(price_db[stock.symbol].change_percent)

\* sum over the first n holdings of change_percent * weight / 100, a missing
\* entry or change counted as 0: the exact sum, in units of 10^-6 percent
RECURSIVE ImpliedSum(_, _, _)
ImpliedSum(holdings, price_db, n) ==
    IF n = 0 THEN 0
    ELSE ImpliedSum(holdings, price_db, n - 1)
         + (IF KnownChange(holdings[n], price_db)
            THEN Val(price_db[holdings[n].symbol].change_percent) * holdings[n].weight
            ELSE 0)

\* sum of the weights of the first n holdings whose change_percent is present:
\* the exact sum, in hundredths
RECURSIVE TrackedSum(_, _, _)
TrackedSum(holdings, price_db, n) ==
    IF n = 0 THEN 0
    ELSE TrackedSum(holdings, price_db, n - 1)
         + (IF KnownChange(holdings[n], price_db) THEN holdings[n].weight ELSE 0)

\* the result reports the sums of the holdings hs over db: implied_move is a
\* 3-decimal number nearest to the implied sum and tracked_weight a 1-decimal
\* number nearest to the tracked sum
ReportsSums(result, hs, db) ==
    /\ Abs(1000 * result.implied_move - ImpliedSum(hs, db, Len(hs))) <= 500
    /\ Abs(10 * result.tracked_weight - TrackedSum(hs, db, Len(hs))) <= 5

\* weights [50, 30, 20] with changes [2.0, missing, -4.0]
ExampleFund == << H("A", 5000), H("B", 3000), H("C", 2000) >>
ExamplePrices(price_db) ==
    /\ KnownChange(H("A", 0), price_db) /\ Val(price_db["A"].change_percent) = 200
    /\ ~KnownChange(H("B", 0), price_db)
    /\ KnownChange(H("C", 0), price_db) /\ Val(price_db["C"].change_percent) = -400

\* C9: for every fund and price map, the implied move the pass computes is
\* the sum over all holdings (duplicates included) of change_percent*weight/100
\* with a missing entry or change counted as 0, and the tracked weight is the
\* sum of the weights of exactly the holdings whose change_percent is present;
\* the result reports them to 3 decimals and to 1 decimal; weights [50,30,20]
\* with changes [2.0, missing, -4.0] give implied_move 0.2 and tracked_weight 70.
C9_AggregationResult ==
    ~IsNone(calc.out) =>
        LET out == Val(calc.out)
        IN  /\ ReportsSums(out.result, calc.holdings, calc.price_db)
            /\ Len(out.result.holdings) = Len(calc.holdings)
            /\ (calc.holdings = ExampleFund /\ ExamplePrices(calc.price_db)) =>
                   /\ out.result.implied_move = 200
                   /\ out.result.tracked_weight = 700

\* the example fund has been evaluated, with B's change missing: the float
\* sum 1.0 + 0.0 - 0.8 is not the float nearest to 0.2, and is reported as 0.2
C9_Witness ==
    /\ ~IsNone(calc.out)
    /\ calc.holdings = ExampleFund
    /\ ExamplePrices(calc.price_db)
    /\ Val(calc.out).eval.total_weighted_change # Decimal(2, 10)
    /\ Val(calc.out).result.implied_move = 200
    /\ Val(calc.out).result.tracked_weight = 700

\* no alert was raised by the evaluation: nothing sent, the level left alone
NoAlertRaised(out) ==
    /\ out.alerts = << >>
    /\ out.level = out.last_lvl

\* C10 as stated: for every fund whose holding list is empty or whose
\* tracked_weight is 0, the implied move is 0, the status is UP and no alert
\* is raised.
C10_Original ==
    (/\ ~IsNone(calc.out)
     /\ \/ calc.holdings = << >>
        \/ Val(calc.out).result.tracked_weight = 0)
    => /\ Val(calc.out).result.implied_move = 0
       /\ Val(calc.out).result.status = "UP"
       /\ NoAlertRaised(Val(calc.out))

\* C10: for every fund whose holding list is empty or in which every holding
\* with a present change_percent has weight 0 (so also when no holding has
\* price data), the implied move is 0, the status is UP and no alert is raised.
C10_DegenerateFunds ==
    (/\ ~IsNone(calc.out)
     /\ \A k \in 1..Len(calc.holdings) :
           KnownChange(calc.holdings[k], calc.price_db) => calc.holdings[k].weight = 0)
    => /\ Val(calc.out).eval.total_weighted_change = Zero
       /\ Val(calc.out).result.implied_move = 0
       /\ Val(calc.out).result.tracked_weight = 0
       /\ Val(calc.out).result.status = "UP"
       /\ NoAlertRaised(Val(calc.out))

\* a fund with holdings, one of weight 0 that has a change and one without
\* price data, has been evaluated
C10_Witness ==
    /\ ~IsNone(calc.out)
    /\ Len(calc.holdings) >= 2
    /\ \E k \in 1..Len(calc.holdings) : KnownChange(calc.holdings[k], calc.price_db)
    /\ \E k \in 1..Len(calc.holdings) : ~KnownChange(calc.holdings[k], calc.price_db)
    /\ \A k \in 1..Len(calc.holdings) :
          KnownChange(calc.holdings[k], calc.price_db) => calc.holdings[k].weight = 0
    /\ Val(calc.out).result.status = "UP"

-----------------------------------------------------------------------------
(* Restore path                                                            *)

\* the holdings of a snapshot document, over all its funds
SnapshotHoldings(doc) ==
    UNION { { doc.cefs[i].holdings[j] : j \in 1..Len(doc.cefs[i].holdings) } :
            i \in 1..Len(doc.cefs) }

\* C11: restore_state applied to a durable snapshot returns a price map with
\* an entry for exactly the symbols of the snapshot's holdings that carry a
\* reported change, each entry holding that change as change_percent and the
\* holding's source, with price and prev_close null; on a missing or
\* unreadable snapshot it returns the empty map.
C11_RestorePath ==
    ~IsNone(calc.out) =>
        LET db == Val(calc.out)
            file == Val(calc.file)
        IN  IF file.state = "complete"
            THEN LET seen == { h \in SnapshotHoldings(Val(file.doc)) :
                                 ~IsNone(h.change) }
                 IN  /\ DOMAIN db = { h.symbol : h \in seen }
                     /\ \A h \in seen :
                           /\ db[h.symbol].change_percent = h.change
                           /\ db[h.symbol].source = h.source
                           /\ IsNone(db[h.symbol].price)
                           /\ IsNone(db[h.symbol].prev_close)
            ELSE db = EmptyMap

\* a snapshot of two funds with a shared symbol was restored: two symbols
\* came back, one holding without a change did not
C11_Witness ==
    /\ ~IsNone(calc.out)
    /\ Val(calc.file).state = "complete"
    /\ Len(Val(Val(calc.file).doc).cefs) = 2
    /\ Cardinality(DOMAIN Val(calc.out)) = 2
    /\ \E h \in SnapshotHoldings(Val(Val(calc.file).doc)) :
          IsNone(h.change) /\ h.symbol \notin DOMAIN Val(calc.out)
    /\ \E h \in SnapshotHoldings(Val(Val(calc.file).doc)) :
          /\ h \in { Val(Val(calc.file).doc).cefs[1].holdings[j] :
                       j \in 1..Len(Val(Val(calc.file).doc).cefs[1].holdings) }
          /\ h \in { Val(Val(calc.file).doc).cefs[2].holdings[j] :
                       j \in 1..Len(Val(Val(calc.file).doc).cefs[2].holdings) }
          /\ ~IsNone(h.change)

-----------------------------------------------------------------------------
(* The reference file                                                      *)

\* C12: the reference file is written atomically.  At every point, a crash
\* in the middle of save_reference included, the file load_reference reads is
\* absent (never written) or a complete {date, prices}; so no rollover is
\* started on a reference file that a write left unreadable.
C12_Original ==
    /\ [](disk[REFERENCE_FILE].state \in {"absent", "complete"})
    /\ [][ last'.op = "rollover" => disk[REFERENCE_FILE].state # "partial" ]_vars

-----------------------------------------------------------------------------
(* Forced refresh                                                          *)

\* every fund of the store was evaluated in the pass, in the store's order
EvaluatedAll(l, file) ==
    /\ Len(l.evals) = Len(get_holdings(file))
    /\ \A k \in 1..Len(l.evals) : l.evals[k].name = get_holdings(file)[k].name

\* C13 as stated: every /cron call fetches prices and evaluates every fund,
\* however fresh the cache is, and on success overwrites the cache data and
\* its last_updated; a /data call inside the window is then served from the
\* cache.
C13_Original ==
    /\ [][ last'.op = "cron_check" /\ last'.serial
           => /\ last'.fetched
              /\ EvaluatedAll(last', holdings_file)
              /\ ~IsError(Val(last'.pass))
                    => memory_cache' = [data |-> last'.pass, last_updated |-> last'.t] ]_vars
    /\ [][ last'.op = "get_data" /\ last'.serial /\ IsFresh(CacheBefore, last'.t)
           => last'.hit /\ last'.response = CacheBefore.data ]_vars

\* C13 (amended): every /cron call starts a pass, however fresh the cache
\* is.  When the holdings store has funds the pass fetches prices, evaluates
\* every fund and stores the time read after the pass as last_updated; when no
\* other pass ran beside it, it alerted exactly the funds whose computed level
\* is above the stored one and the cache holds its result.  When the store has
\* no funds the pass returns the error without a fetch and the cache stays.
\* A /data call inside the window is served from the cache.
C13_ForcedRefresh ==
    /\ [][ last'.op = "cron_check"
           => /\ ~IsNone(last'.pass)
              /\ IF get_holdings(holdings_file) # << >>
                 THEN /\ last'.fetched
                      /\ EvaluatedAll(last', holdings_file)
                      /\ ~IsError(Val(last'.pass))
                      /\ memory_cache'.last_updated = last'.t
                      /\ Val(last'.before).now <= last'.t /\ last'.t <= now'
                      /\ deploy = "service" => last'.t = now'
                      /\ last'.serial =>
                            /\ \A k \in 1..Len(last'.evals) :
                                  AlertedIn(last', last'.evals[k].name)
                                     <=> last'.evals[k].alert_level
                                            > Lvl(LevelsBefore, last'.evals[k].name)
                            /\ memory_cache' = [data |-> last'.pass,
                                                last_updated |-> last'.t]
                 ELSE /\ IsError(Val(last'.pass))
                      /\ ~last'.fetched
                      /\ memory_cache' = CacheBefore ]_vars
    /\ [][ last'.op = "get_data" /\ last'.serial /\ IsFresh(CacheBefore, last'.t)
           => last'.hit /\ last'.response = CacheBefore.data ]_vars
    /\ [][ \A t \in Threads :
             StepFrom(t, "cache_time") /\ IsFresh(memory_cache, thr[t].t)
             => thr'[t].pc = "hit" ]_vars

\* /cron ran a pass on a cache that was still fresh, alerted a fund and stored
\* its result with a later time
C13_Witness ==
    /\ last.op = "cron_check"
    /\ last.fresh
    /\ RanPass(last)
    /\ last.alerts # << >>
    /\ memory_cache.data = last.pass
    /\ memory_cache.last_updated = now
    /\ now > 0

-----------------------------------------------------------------------------
(* Cache hit                                                               *)

\* C14: a /data call on a fresh cache is served from it and has no side
\* effect: no step of it changes an alert level, the cached data or
\* last_updated, nothing is fetched and no notification is sent, whatever the
\* cached moves and the stored levels are, and whatever other requests do
\* beside it; and when none runs a pass beside it, levels and cache after the
\* call are those before it.
C14_CacheHitNoSideEffects ==
    /\ [][ \A t \in Threads :
             /\ (\E pc \in {"cache_data", "cache_time", "hit"} : StepFrom(t, pc))
                   => /\ cef_alert_states' = cef_alert_states
                      /\ memory_cache' = memory_cache
                      /\ sent_count' = sent_count
                      /\ now' = now
             /\ StepFrom(t, "cache_data") /\ thr[t].t - memory_cache.last_updated < CACHE_DURATION
                   /\ ~IsNone(memory_cache.data)
                   => thr'[t].pc = "cache_time"
             /\ StepFrom(t, "cache_time") /\ thr[t].t - memory_cache.last_updated < CACHE_DURATION
                   => thr'[t].pc = "hit"
             /\ StepFrom(t, "hit")
                   => /\ last'.op = "get_data" /\ last'.hit
                      /\ last'.response = memory_cache.data
                      /\ ~last'.fetched
                      /\ last'.alerts = << >> /\ last'.evals = << >> ]_vars
    /\ [][ /\ last'.op = "get_data" /\ last'.serial
           /\ ~IsNone(CacheBefore.data)
           /\ last'.t - CacheBefore.last_updated < CACHE_DURATION
           => /\ last'.hit
              /\ last'.response = CacheBefore.data
              /\ cef_alert_states' = LevelsBefore
              /\ memory_cache' = CacheBefore
              /\ ~last'.fetched
              /\ last'.alerts = << >> /\ last'.evals = << >> ]_vars

\* a /data call was served from a cache holding, for some fund, a move of at
\* least 1.0 while the fund's stored level is below 2
C14_Witness ==
    /\ last.op = "get_data"
    /\ last.hit
    /\ \E k \in 1..Len(Val(memory_cache.data).cefs) :
          /\ Abs(Val(memory_cache.data).cefs[k].implied_move) >= 1000
          /\ Lvl(cef_alert_states, Val(memory_cache.data).cefs[k].name) < 2

-----------------------------------------------------------------------------
(* Threshold mapping                                                       *)

\* C15 as stated: the level a pass computes is 2 exactly when the absolute
\* move is at least 1.0, 1 exactly when it is at least 0.5 and below 1.0, and
\* 0 otherwise, for moves up and down alike, the boundaries included; and the
\* alerts of a fund between two resets have strictly rising levels, so that a
\* fund whose first alert is at level 2 gets that one alert and no level-1
\* alert.  The move is the sum of change_percent * weight / 100 over the
\* holdings.
C15_Original ==
    /\ ~IsNone(calc.out) =>
          LET move == ImpliedSum(calc.holdings, calc.price_db, Len(calc.holdings))
              lvl == Val(calc.out).eval.alert_level
          IN  /\ lvl \in {0, 1, 2}
              /\ lvl = 2 <=> (move >= 1000000 \/ move <= -1000000)
              /\ lvl = 1 <=> (/\ move >= 500000 \/ move <= -500000
                              /\ move < 1000000 /\ move > -1000000)
              /\ Val(calc.out).alerts # << >>
                    => Val(calc.out).alerts[1].msg.level = lvl
    /\ \A j \in 1..Len(calc.sent) : j > 1 => calc.sent[j] > calc.sent[j - 1]
    /\ (calc.sent # << >> /\ calc.sent[1] = 2) => calc.sent = << 2 >>

-----------------------------------------------------------------------------
(* Partial price data                                                      *)

\* the provider's response of the pass (the empty map when it was not asked)
ResponseOf(l) == IF IsNone(l.prices) THEN EmptyMap ELSE Val(l.prices)

\* a map with the entries of new, and those of old for the other symbols
Merged(old, new) ==
    [ s \in (DOMAIN old) \cup (DOMAIN new) |-> IF s \in DOMAIN new THEN new[s] ELSE old[s] ]

\* the pass l over the funds all_cefs aggregated over the price map db: every
\* fund's reported move and tracked weight are the sums over db, and a holding whose
\* symbol has no entry in db is reported without a change
AggregatedOver(l, all_cefs, db) ==
    /\ Len(l.evals) = Len(all_cefs)
    /\ \A k \in 1..Len(all_cefs) :
          LET hs == all_cefs[k].holdings
          IN  /\ ReportsSums(Val(l.pass).cefs[k], hs, db)
              /\ \A j \in 1..Len(hs) :
                    hs[j].symbol \notin DOMAIN db
                       => IsNone(Val(l.pass).cefs[k].holdings[j].change)

\* C16 as stated: in every pass of the service and of the loop, the moves and
\* tracked weights are the sums over the provider's response for that pass: a
\* holding whose symbol is missing from it contributes 0 and is not tracked.
C16_Original ==
    [][ RanPass(last')
        => AggregatedOver(last',
                          IF Service THEN get_holdings(holdings_file)
                          ELSE proc'.all_cefs,
                          ResponseOf(last')) ]_vars

\* C16 (amended): every pass aggregates over its price map, and a holding
\* whose symbol has no entry in that map contributes 0 and is not tracked.  In
\* the service the map is the provider's response for that pass.  In the loop
\* it is the map kept across passes: the restored snapshot at the first
\* export, afterwards the kept map with the entries of the response put over
\* it, so a symbol missing from the response keeps its earlier change.
C16_PartialPriceData ==
    /\ [][ RanPass(last') /\ Service
           => AggregatedOver(last', get_holdings(holdings_file), ResponseOf(last')) ]_vars
    /\ [][ RanPass(last') /\ deploy = "loop"
           => /\ AggregatedOver(last', proc'.all_cefs, proc'.price_db)
              /\ last'.op = "boot_export"
                    => proc'.price_db = restore_state(disk[DASHBOARD_FILE])
              /\ last'.op = "export"
                    => proc'.price_db = Merged(proc.price_db, ResponseOf(last')) ]_vars

\* a pass of the loop whose response lacked B tracked B with the change of an
\* earlier pass
C16_Witness ==
    /\ deploy = "loop"
    /\ last.op = "export"
    /\ "A" \in DOMAIN ResponseOf(last)
    /\ "B" \notin DOMAIN ResponseOf(last)
    /\ "B" \in DOMAIN proc.price_db
    /\ \E k \in 1..Len(last.evals) :
          /\ last.evals[k].name = "CEF2"
          /\ Val(last.pass).cefs[k].tracked_weight = 800

-----------------------------------------------------------------------------
(* Idempotent aggregation                                                  *)

\* the two price maps hold the same change and source for the same symbols
SamePrices(db1, db2) ==
    /\ DOMAIN db1 = DOMAIN db2
    /\ \A s \in DOMAIN db1 :
          /\ db1[s].change_percent = db2[s].change_percent
          /\ db1[s].source = db2[s].source

\* C17: two consecutive passes over the same holdings and the same price
\* data, with no reset between them, report the same funds in the same order
\* with the same implied_move, tracked_weight, status and holdings, and the
\* second pass sends no notification and changes no alert level.  In the
\* service the passes are those of two requests in a row, each run with no
\* other pass beside it; in the loop the earlier pass is the one whose
\* snapshot is on disk.
C17_IdempotentAggregation ==
    /\ [][ /\ Service
           /\ RanPass(last') /\ last'.serial
           /\ ~IsNone(Val(last'.before).prev)
           /\ SamePrices(ResponseOf(Val(Val(last'.before).prev)), ResponseOf(last'))
           => /\ Val(last'.pass).cefs = Val(Val(last'.before).prev).cefs
              /\ last'.alerts = << >>
              /\ cef_alert_states' = LevelsBefore ]_vars
    /\ [][ /\ deploy = "loop"
           /\ last.op = "top" /\ last'.op = "export"
           /\ SamePrices(proc.price_db, proc'.price_db)
           => /\ disk[DASHBOARD_FILE].state = "complete"
              /\ Val(last'.pass).cefs = Val(disk[DASHBOARD_FILE].doc).cefs
              /\ last'.alerts = << >>
              /\ cef_alert_states' = cef_alert_states ]_vars

\* the loop ran a second pass that reports what the snapshot on disk reports,
\* with a fund at a computed level of 1 or 2, and sent nothing
C17_Witness ==
    /\ deploy = "loop"
    /\ last.op = "export"
    /\ IsNone(last.rolled)
    /\ proc.pc = "write"
    /\ disk[DASHBOARD_FILE].state = "complete"
    /\ Val(last.pass).cefs = Val(disk[DASHBOARD_FILE].doc).cefs
    /\ \E k \in 1..Len(last.evals) : last.evals[k].alert_level >= 1
    /\ last.alerts = << >>

-----------------------------------------------------------------------------
(* Alert direction and status                                              *)

\* C18: whenever a pass sends an escalation alert for a fund, the direction
\* in the alert (UP if the move is above 0, else DOWN) is the status the same
\* pass reports for that fund (UP if the move is at least 0, else DOWN).
C18_DirectionAgreesWithStatus ==
    RanPass(last) =>
        \A j \in 1..Len(last.alerts) :
           \E k \in 1..Len(Val(last.pass).cefs) :
              /\ Val(last.pass).cefs[k].name = last.alerts[j].msg.cef
              /\ last.evals[k].name = last.alerts[j].msg.cef
              /\ last.alerts[j].msg.direction = Val(last.pass).cefs[k].status
              /\ last.alerts[j].msg.direction
                    = IF FloatCmp(last.evals[k].total_weighted_change, Zero) > 0
                      THEN "UP" ELSE "DOWN"
              /\ Val(last.pass).cefs[k].status
                    = IF FloatCmp(last.evals[k].total_weighted_change, Zero) >= 0
                      THEN "UP" ELSE "DOWN"

\* a pass alerted CEF2 with direction DOWN, and reported CEF1, whose move is
\* exactly 0, as UP without an alert
C18_Witness ==
    /\ RanPass(last)
    /\ \E j \in 1..Len(last.alerts) :
          /\ last.alerts[j].msg.cef = "CEF2"
          /\ last.alerts[j].msg.direction = "DOWN"
    /\ \E k \in 1..Len(last.evals) :
          /\ last.evals[k].name = "CEF1"
          /\ last.evals[k].total_weighted_change = Zero
          /\ Val(last.pass).cefs[k].status = "UP"
          /\ ~AlertedIn(last, "CEF1")

-----------------------------------------------------------------------------
(* Exports and the day of their price data                                 *)

\* C19: in the loop no alert evaluation runs on price data of another day.
\* An export of the loop body runs after the rollover check of its iteration
\* has stored a date; the first export after a cold start, when the restored
\* snapshot gives it price data, runs with the stored reference date equal
\* to the current date (the rollover check has been made).
C19_Original ==
    /\ [][ deploy = "loop" /\ last'.op = "export"
           => proc.pc = "fetch" /\ proc.ref_data.date \in 1..today ]_vars
    /\ [][ /\ deploy = "loop"
           /\ last'.op = "boot_export"
           /\ proc'.price_db # EmptyMap
           => proc'.ref_data.date = today ]_vars

=============================================================================
